---- MODULE Spec2Model ----
(***************************************************************************)
(* The in-memory TTL cache (packages/local-cache) and the cache-aside      *)
(* DynamoDB adapter built on it (packages/cached-dynamo).                  *)
(*                                                                         *)
(* JavaScript strings are sequences of one-character strings, so that      *)
(* concatenation and startsWith are computed as the code computes them.    *)
(* Optional values (T | undefined, T | null) are sequences of length 0 or  *)
(* 1.  Time is Date.now() in milliseconds.                                 *)
(***************************************************************************)
EXTENDS Integers, Sequences, FiniteSets, TLC

VARIABLES
    now,          \* Date.now(), milliseconds
    inst,         \* the LocalCache instance: cache map, lastCleanup, options
    store,        \* the DynamoDB table behind DynamoWrapper
    cacheConfig,  \* CachedDynamoWrapper.cacheConfig: enabled, ttl
    lastOp,       \* history: the last call, its arguments, result and remote calls
    lastSet,      \* history: per key, the last LocalCache.set not yet undone
    objects,      \* the LocalCache objects constructed so far (a handle is an index)
    instances,    \* LocalCache.instances: name -> handle of the registered object
    pending       \* the adapter calls suspended at their remote-store await

vars == <<now, inst, store, cacheConfig, lastOp, lastSet, objects, instances, pending>>

-----------------------------------------------------------------------------
(* Bounds *)

MaxNow == 3000          \* the clock stops advancing here (ms)
MaxBatch == 2           \* longest key / item list passed to a batch operation
MaxSweepNow == 1801000  \* where the clock stops in runs that reach a cleanup sweep (ms)

TickSteps == {500, 1000}
TtlValues == {0, 1, 2}  \* ttlSeconds arguments that are passed (a duration)
CleanupIntervals == {2000}

-----------------------------------------------------------------------------
(* JavaScript values *)

Undefined == -1         \* an optional number that is not set (ttl?: number)

None == <<>>            \* undefined / null result
Some(v) == <<v>>

\* !value : the model's one falsy value is the empty string
Falsy(value) == value = <<>>

\* a truthy number: neither undefined nor 0
TruthyNumber(n) == n # Undefined /\ n # 0

StartsWith(s, p) == Len(p) <= Len(s) /\ SubSeq(s, 1, Len(p)) = p

\* Math.floor(ms / 1000)
Seconds(ms) == ms \div 1000

-----------------------------------------------------------------------------
(* Map<string, CacheItem>: entries in insertion order *)

MapHas(m, k) == \E i \in 1..Len(m) : m[i].key = k
MapGet(m, k) == m[CHOOSE i \in 1..Len(m) : m[i].key = k]
\* a Map.set that keeps the expiry of the entry it finds
MapSetMerge(m, k, item) ==
    IF MapHas(m, k)
    THEN [i \in 1..Len(m) |-> IF m[i].key = k THEN [item EXCEPT !.ttl = m[i].ttl] ELSE m[i]]
    ELSE Append(m, item)
MapSet(m, k, item) ==
    IF MapHas(m, k)
    THEN [i \in 1..Len(m) |-> IF m[i].key = k THEN item ELSE m[i]]
    ELSE Append(m, item)
MapDelete(m, k) == SelectSeq(m, LAMBDA item : item.key # k)

-----------------------------------------------------------------------------
(* LocalCache *)

DefaultCleanupInterval == 30 * 60 * 1000

\* private constructor(options)
LocalCache_new(cleanupIntervalOpt, prefixOpt, t) ==
    [cache |-> <<>>,
     lastCleanup |-> t,
     cleanupInterval |-> IF cleanupIntervalOpt = Undefined
                         THEN DefaultCleanupInterval ELSE cleanupIntervalOpt,
     prefix |-> prefixOpt]

buildKey(c, key) == IF c.prefix # <<>> THEN c.prefix \o key ELSE key

\* a stripKey that hands the stored key back
stripKeyKeep(c, fullKey) == fullKey

stripKey(c, fullKey) ==
    IF c.prefix = <<>> THEN fullKey
    ELSE IF StartsWith(fullKey, c.prefix)
         THEN SubSeq(fullKey, Len(c.prefix) + 1, Len(fullKey))
         ELSE fullKey

\* cleanup(): item.ttl && item.ttl < nowSeconds
cleanupExpired(item, nowSeconds) == TruthyNumber(item.ttl) /\ item.ttl < nowSeconds

\* a cleanup that sweeps on every call
cleanupAlways(c, t) ==
    [c EXCEPT !.cache = SelectSeq(@, LAMBDA item : ~cleanupExpired(item, Seconds(t))),
              !.lastCleanup = t]

\* cleanup(): nothing before cleanupInterval has elapsed, else the sweep
cleanup(c, t) ==
    IF t - c.lastCleanup < c.cleanupInterval THEN c
    ELSE [c EXCEPT !.cache = SelectSeq(@, LAMBDA item : ~cleanupExpired(item, Seconds(t))),
                   !.lastCleanup = t]

getExpiredLe(item, nowSeconds) == TruthyNumber(item.ttl) /\ item.ttl <= nowSeconds
\* get(): item.ttl && item.ttl < now
getExpired(item, nowSeconds) == TruthyNumber(item.ttl) /\ item.ttl < nowSeconds

\* get(key): the instance afterwards and the value returned
LocalCache_get(c, key, t) ==
    LET c1 == cleanup(c, t)
        fullKey == buildKey(c1, key)
    IN  IF MapHas(c1.cache, fullKey)
        THEN LET item == MapGet(c1.cache, fullKey)
             IN  IF getExpired(item, Seconds(t))
                 THEN [c |-> [c1 EXCEPT !.cache = MapDelete(@, fullKey)], ret |-> None]
                 ELSE [c |-> c1, ret |-> Some(item.value)]
        ELSE [c |-> c1, ret |-> None]

\* an expiry that is stored for every ttlSeconds that is passed
setTtlPassed(ttlSeconds, t) ==
    IF ttlSeconds # Undefined THEN Seconds(t) + ttlSeconds ELSE Undefined

\* the expiry set() stores: ttlSeconds ? floor(now / 1000) + ttlSeconds : undefined
setTtl(ttlSeconds, t) ==
    IF TruthyNumber(ttlSeconds) THEN Seconds(t) + ttlSeconds ELSE Undefined

\* a set that stores whatever it is given
LocalCache_setAny(c, key, value, ttlSeconds, t) ==
    LET c1 == cleanup(c, t)
        fullKey == buildKey(c1, key)
    IN  [c1 EXCEPT !.cache = MapSet(@, fullKey,
             [key |-> fullKey, value |-> value, ttl |-> setTtl(ttlSeconds, t)])]

\* set(key, value, ttlSeconds)
LocalCache_set(c, key, value, ttlSeconds, t) ==
    LET c1 == cleanup(c, t)
        fullKey == buildKey(c1, key)
    IN  IF Falsy(value)
        THEN [c1 EXCEPT !.cache = MapDelete(@, fullKey)]
        ELSE [c1 EXCEPT !.cache = MapSet(@, fullKey,
                 [key |-> fullKey, value |-> value, ttl |-> setTtl(ttlSeconds, t)])]

\* a query that takes every matching entry for live
queryLiveAny(item, nowSeconds) == TRUE

\* query(): !item.ttl || item.ttl >= now
queryLive(item, nowSeconds) == ~TruthyNumber(item.ttl) \/ item.ttl >= nowSeconds

\* query(prefix): the instance afterwards and the values returned
LocalCache_query(c, prefix, t) ==
    LET c1 == cleanup(c, t)
        fullPrefix == buildKey(c1, prefix)
        live(item) == queryLive(item, Seconds(t))
        hits == SelectSeq(c1.cache,
                          LAMBDA item : StartsWith(item.key, fullPrefix) /\ live(item))
    IN  [c |-> [c1 EXCEPT !.cache = SelectSeq(@,
                   LAMBDA item : ~StartsWith(item.key, fullPrefix) \/ live(item))],
         ret |-> [i \in 1..Len(hits) |-> hits[i].value]]

\* delete(key): the instance afterwards and whether an entry was removed
LocalCache_delete(c, key) ==
    LET fullKey == buildKey(c, key)
    IN  [c |-> [c EXCEPT !.cache = MapDelete(@, fullKey)],
         ret |-> MapHas(c.cache, fullKey)]

\* clear()
LocalCache_clear(c) == [c EXCEPT !.cache = <<>>]

\* a size without the cleanup step
LocalCache_sizeNoCleanup(c, t) == [c |-> c, ret |-> Len(c.cache)]

\* size(): the instance afterwards and the number returned
LocalCache_size(c, t) ==
    LET c1 == cleanup(c, t)
    IN  [c |-> c1, ret |-> Len(c1.cache)]

\* has(key)
LocalCache_has(c, key, t) ==
    LET r == LocalCache_get(c, key, t)
    IN  [c |-> r.c, ret |-> r.ret # None]

\* an entries() without the cleanup step
LocalCache_entriesNoCleanup(c, t) ==
    [c |-> c,
     ret |-> [i \in 1..Len(c.cache) |-> <<stripKey(c, c.cache[i].key), c.cache[i].value>>]]

\* entries(): the instance afterwards and the [key, value] pairs returned
LocalCache_entries(c, t) ==
    LET c1 == cleanup(c, t)
    IN  [c |-> c1,
         ret |-> [i \in 1..Len(c1.cache) |->
                     <<stripKey(c1, c1.cache[i].key), c1.cache[i].value>>]]

\* keys()
LocalCache_keys(c, t) ==
    LET e == LocalCache_entries(c, t)
    IN  [c |-> e.c, ret |-> [i \in 1..Len(e.ret) |-> e.ret[i][1]]]

\* values()
LocalCache_values(c, t) ==
    LET e == LocalCache_entries(c, t)
    IN  [c |-> e.c, ret |-> [i \in 1..Len(e.ret) |-> e.ret[i][2]]]

-----------------------------------------------------------------------------
(* History records *)

NoKeys == <<>>

\* one call: its name, key and item arguments, the value or list returned
\* (ret), the boolean returned (ok), the DynamoWrapper calls it made (remote),
\* what the cache held for each key argument when it started (cached) and,
\* for the adapter's get, the call before it (prev)
Op(name, keys, items, ret, ok, remote) ==
    [op |-> name, keys |-> keys, items |-> items, ret |-> ret, ok |-> ok,
     remote |-> remote, cached |-> <<>>, prev |-> <<>>, args |-> <<>>]

\* a step the history keeps no record of
Idle == Op("-", NoKeys, <<>>, None, TRUE, <<>>)

\* no adapter call is suspended
NoCalls == pending = <<>>

NoSet == [at |-> Undefined, value |-> <<>>, ttl |-> Undefined]

\* static instances = new Map(): the names callers use, none registered
Names == {"default", "x"}
NotRegistered == 0
NoInstances == objects = <<>> /\ instances = [name \in Names |-> NotRegistered]

-----------------------------------------------------------------------------
(* The cache used directly: callers of one LocalCache instance *)

CacheKeys == {<<"k">>, <<"k", "2">>}
CacheValues == {<<>>, <<"a">>, <<"b">>}
CachePrefixes == {<<>>, <<"t", ":">>}

InitCache ==
    /\ now = 0
    /\ \E ci \in CleanupIntervals \cup {Undefined}, p \in CachePrefixes :
          inst = LocalCache_new(ci, p, 0)
    /\ store = <<>>
    /\ cacheConfig = [enabled |-> FALSE, ttl |-> Undefined]
    /\ lastOp = Idle
    /\ NoCalls
    /\ lastSet = [k \in CacheKeys |-> NoSet]
    /\ NoInstances

\* Date.now() has advanced by d ms, the clock stopping at limit
Advance(d, limit) ==
    /\ now + d <= limit
    /\ now' = now + d
    /\ lastOp' = Idle
    /\ UNCHANGED <<pending, objects, instances, inst, store, cacheConfig, lastSet>>

Tick(d) == Advance(d, MaxNow)

Cache_set(k, v, ttlSeconds) ==
    /\ inst' = LocalCache_set(inst, k, v, ttlSeconds, now)
    /\ lastSet' = [lastSet EXCEPT ![k] =
                      IF Falsy(v) THEN NoSet
                      ELSE [at |-> now, value |-> v, ttl |-> ttlSeconds]]
    /\ lastOp' = Op("cache.set", <<k>>, <<v>>, None, TRUE, <<>>)
    /\ UNCHANGED <<pending, objects, instances, now, store, cacheConfig>>

Cache_get(k) ==
    LET r == LocalCache_get(inst, k, now)
    IN  /\ inst' = r.c
        /\ lastOp' = Op("cache.get", <<k>>, <<>>, r.ret, TRUE, <<>>)
        /\ UNCHANGED <<pending, objects, instances, now, store, cacheConfig, lastSet>>

Cache_delete(k) ==
    LET r == LocalCache_delete(inst, k)
    IN  /\ inst' = r.c
        /\ lastSet' = [lastSet EXCEPT ![k] = NoSet]
        /\ lastOp' = Op("cache.delete", <<k>>, <<>>, None, r.ret, <<>>)
        /\ UNCHANGED <<pending, objects, instances, now, store, cacheConfig>>

Cache_clear ==
    /\ inst' = LocalCache_clear(inst)
    /\ lastSet' = [k \in CacheKeys |-> NoSet]
    /\ lastOp' = Op("cache.clear", NoKeys, <<>>, None, TRUE, <<>>)
    /\ UNCHANGED <<pending, objects, instances, now, store, cacheConfig>>

NextCache ==
    \/ \E d \in TickSteps : Tick(d)
    \/ \E k \in CacheKeys, v \in CacheValues, t \in TtlValues \cup {Undefined} :
          Cache_set(k, v, t)
    \/ \E k \in CacheKeys : Cache_get(k)
    \/ \E k \in CacheKeys : Cache_delete(k)
    \/ Cache_clear

SpecCache == InitCache /\ [][NextCache]_vars

-----------------------------------------------------------------------------
(* DynamoWrapper: the table.  Keys and attribute values are strings, so the  *)
(* template literal `${value}` is the value itself.  The store is honest: a  *)
(* call that reports success has been applied in full, one that reports      *)
(* failure (an SDK error, caught and turned into false / null / []) has      *)
(* changed nothing.                                                          *)

partitionKey == "pk"
sortKey == Some("sk")

Data == {"a", "b"}

\* the DynamoKey objects of the table: one partition, two sort values
Keys == [pk : {<<"u">>}, sk : {<<"1">>, <<"2">>}]
SortOrder == <<<<"1">>, <<"2">>>>

ItemsOf(tbl) == {[pk |-> k.pk, sk |-> k.sk, data |-> d] : k \in DOMAIN tbl, d \in Data}
PartitionsOf(tbl) == {k.pk : k \in DOMAIN tbl}

SeqsUpTo(S, n) == UNION {[1..m -> S] : m \in 0..n}
NoDuplicates(s) == \A i, j \in 1..Len(s) : s[i] = s[j] => i = j

\* createKey(partitionValue, sortValue)
createKey(partitionValue, sortValue) ==
    [pk |-> partitionValue, sk |-> sortValue[1]]

itemKey(item) == [pk |-> item.pk, sk |-> item.sk]

\* serializeItem(item) = unmarshall(marshall(item, {removeUndefinedValues: true})).
\* An item is a total map from attribute names to values, a missing attribute
\* and an attribute holding undefined being the same thing, so dropping the
\* undefined attributes gives the same map.
serializeItem(item) == [pk |-> item.pk, sk |-> item.sk, data |-> item.data]

\* every DynamoWrapper operation: the table afterwards and the value returned
DynamoWrapper_get(tbl, partitionValue, sortValue, fail) ==
    IF fail THEN None ELSE tbl[createKey(partitionValue, sortValue)]

DynamoWrapper_put(tbl, item, fail) ==
    IF fail THEN [tbl |-> tbl, ret |-> FALSE]
    ELSE [tbl |-> [tbl EXCEPT ![itemKey(item)] = Some(serializeItem(item))],
          ret |-> TRUE]

\* UpdateCommand with SET data = :value; DynamoDB creates the item if missing
DynamoWrapper_update(tbl, partitionValue, sortValue, attributes, fail) ==
    LET key == createKey(partitionValue, sortValue)
    IN  IF fail THEN [tbl |-> tbl, ret |-> FALSE]
        ELSE [tbl |-> [tbl EXCEPT ![key] =
                          Some([pk |-> key.pk, sk |-> key.sk, data |-> attributes.data])],
              ret |-> TRUE]

DynamoWrapper_delete(tbl, partitionValue, sortValue, fail) ==
    IF fail THEN [tbl |-> tbl, ret |-> FALSE]
    ELSE [tbl |-> [tbl EXCEPT ![createKey(partitionValue, sortValue)] = None],
          ret |-> TRUE]

\* the items of one partition in sort-key order
RECURSIVE PartitionItems(_, _, _)
PartitionItems(tbl, partitionValue, order) ==
    IF order = <<>> THEN <<>>
    ELSE LET key == [pk |-> partitionValue, sk |-> Head(order)]
         IN  (IF key \in DOMAIN tbl THEN tbl[key] ELSE <<>>)
                 \o PartitionItems(tbl, partitionValue, Tail(order))

Take(s, n) == SubSeq(s, 1, IF Len(s) < n THEN Len(s) ELSE n)
Reverse(s) == [i \in 1..Len(s) |-> s[Len(s) + 1 - i]]

\* QueryCommand: Limit bounds the items read, FilterExpression (data = "a")
\* is applied to them afterwards, an index returns them in its own order
DynamoWrapper_query(tbl, partitionValue, options, fail) ==
    IF fail THEN <<>>
    ELSE LET all == PartitionItems(tbl, partitionValue, SortOrder)
             ordered == IF options.indexName THEN Reverse(all) ELSE all
             read == IF TruthyNumber(options.limit) THEN Take(ordered, options.limit)
                     ELSE ordered
         IN  IF options.filterExpression
             THEN SelectSeq(read, LAMBDA item : item.data = "a")
             ELSE read

RECURSIVE Found(_, _)
Found(tbl, keys) ==
    IF keys = <<>> THEN <<>> ELSE tbl[Head(keys)] \o Found(tbl, Tail(keys))

\* BatchGetCommand: rejects an empty or duplicated key list; the found items
\* come back in the request's order or (reversed) in another one
DynamoWrapper_batchGet(tbl, keys, fail, reversed) ==
    IF fail \/ keys = <<>> \/ ~NoDuplicates(keys) THEN <<>>
    ELSE IF reversed THEN Reverse(Found(tbl, keys)) ELSE Found(tbl, keys)

RECURSIVE PutAll(_, _)
PutAll(tbl, items) ==
    IF items = <<>> THEN tbl
    ELSE PutAll([tbl EXCEPT ![itemKey(Head(items))] = Some(serializeItem(Head(items)))],
                Tail(items))

\* BatchWriteCommand of PutRequests: rejects an empty list and two requests
\* for one key
DynamoWrapper_batchPut(tbl, items, fail) ==
    IF fail \/ items = <<>> \/ ~NoDuplicates([i \in 1..Len(items) |-> itemKey(items[i])])
    THEN [tbl |-> tbl, ret |-> FALSE]
    ELSE [tbl |-> PutAll(tbl, items), ret |-> TRUE]

\* BatchWriteCommand of DeleteRequests
DynamoWrapper_batchDelete(tbl, keys, fail) ==
    IF fail \/ keys = <<>> \/ ~NoDuplicates(keys)
    THEN [tbl |-> tbl, ret |-> FALSE]
    ELSE [tbl |-> [k \in DOMAIN tbl |-> IF \E i \in 1..Len(keys) : keys[i] = k
                                        THEN None ELSE tbl[k]],
          ret |-> TRUE]

-----------------------------------------------------------------------------
(* CachedDynamoWrapper *)

tableName == <<"t">>

\* helpers.generateCacheKey(partitionValue, sortValue)
\* the variant that puts a prefix first, called with the table name
generateCacheKeyPrefixed(partitionValue, sortValue) ==
    IF sortValue # None THEN tableName \o <<":">> \o partitionValue \o <<":">> \o sortValue[1]
    ELSE tableName \o <<":">> \o partitionValue

generateCacheKey(partitionValue, sortValue) ==
    IF sortValue # None THEN partitionValue \o <<":">> \o sortValue[1]
    ELSE partitionValue

\* helpers.extractKeys(item, partitionKey, sortKey)
extractKeys(item, pKey, sKey) ==
    [partitionValue |-> item[pKey],
     sortValue |-> IF sKey # None /\ sKey[1] \in DOMAIN item
                   THEN Some(item[sKey[1]]) ELSE None]

getCacheKey(partitionValue, sortValue) == generateCacheKey(partitionValue, sortValue)

\* the cache key of an item, as put / query / batchGet / batchPut derive it,
\* in an adapter whose sort key attribute is sKey
itemCacheKeyWith(item, sKey) ==
    LET ks == extractKeys(item, partitionKey, sKey)
    IN  getCacheKey(ks.partitionValue, ks.sortValue)

itemCacheKey(item) == itemCacheKeyWith(item, sortKey)

\* the cache key of a DynamoKey object, as batchGet / batchDelete derive it,
\* in an adapter whose sort key attribute is sKey
keyCacheKeyWith(key, sKey) ==
    getCacheKey(key[partitionKey],
                IF sKey # None /\ sKey[1] \in DOMAIN key THEN Some(key[sKey[1]]) ELSE None)

keyCacheKey(key) == keyCacheKeyWith(key, sortKey)

\* one DynamoWrapper call: the method, its keys, the boolean and the items
\* it returned
Remote(method, keys, ok, ret) == [m |-> method, keys |-> keys, ok |-> ok, ret |-> ret]

\* what get(cacheKey) on the instance would return at time t
Cached(c, cacheKey, t) == LocalCache_get(c, cacheKey, t).ret

\* the history record of a call: in full when rec, none otherwise
Rec(rec, name, keys, items, ret, ok, remote) ==
    IF rec
    THEN [Op(name, keys, items, ret, ok, remote) EXCEPT
             !.cached = [i \in 1..Len(keys) |-> Cached(inst, keyCacheKey(keys[i]), now)]]
    ELSE Idle

\* the same, remembering the call before
RecAfter(rec, name, keys, items, ret, ok, remote) ==
    IF rec
    THEN [Rec(rec, name, keys, items, ret, ok, remote) EXCEPT
             !.prev = Some([lastOp EXCEPT !.prev = <<>>])]
    ELSE Idle

CfgTtls == {Undefined, 0, 1}

\* new CachedDynamoWrapper(config) on an empty table, caching enabled
Init ==
    /\ now = 0
    /\ inst = LocalCache_new(Undefined, tableName \o <<":">>, 0)
    /\ store = [k \in Keys |-> None]
    /\ \E ttl \in CfgTtls : cacheConfig = [enabled |-> TRUE, ttl |-> ttl]
    /\ lastOp = Idle
    /\ NoCalls
    /\ lastSet = [k \in CacheKeys |-> NoSet]
    /\ NoInstances

\* items.forEach(item => cache.set(cacheKey(item), item, ttl))
RECURSIVE SetAll(_, _, _, _)
SetAll(c, items, ttl, t) ==
    IF items = <<>> THEN c
    ELSE SetAll(LocalCache_set(c, itemCacheKey(Head(items)), Head(items), ttl, t),
                Tail(items), ttl, t)

DeleteFirst(c, keys) ==
    IF keys = <<>> THEN c ELSE LocalCache_delete(c, keyCacheKey(Head(keys))).c
\* keys.forEach(key => cache.delete(cacheKey(key)))
RECURSIVE DeleteAll(_, _)
DeleteAll(c, keys) ==
    IF keys = <<>> THEN c
    ELSE DeleteAll(LocalCache_delete(c, keyCacheKey(Head(keys))).c, Tail(keys))

LookupAllMissing(c, keys, t) ==
    [c |-> c,
     results |-> [i \in 1..Len(SelectSeq(keys, LAMBDA k : Cached(c, keyCacheKey(k), t) # None))
                    |-> Cached(c, keyCacheKey(SelectSeq(keys,
                            LAMBDA k : Cached(c, keyCacheKey(k), t) # None)[i]), t)[1]],
     missingKeys |-> keys]
\* batchGet's loop over the keys: cache hits in results, the rest in missingKeys
RECURSIVE Lookup(_, _, _)
Lookup(c, keys, t) ==
    IF keys = <<>> THEN [c |-> c, results |-> <<>>, missingKeys |-> <<>>]
    ELSE LET r == LocalCache_get(c, keyCacheKey(Head(keys)), t)
             rest == Lookup(r.c, Tail(keys), t)
         IN  IF r.ret # None
             THEN [rest EXCEPT !.results = r.ret \o @]
             ELSE [rest EXCEPT !.missingKeys = <<Head(keys)>> \o @]

\* the cache write or eviction each operation ends with

get_storeNoTtl(c, cacheKey, item) ==
    IF item # None /\ cacheConfig.enabled
    THEN LocalCache_set(c, cacheKey, item[1], Undefined, now) ELSE c
get_storeNegative(c, cacheKey, item) ==
    IF cacheConfig.enabled
    THEN LocalCache_set(c, cacheKey,
                        IF item # None THEN item[1]
                        ELSE [pk |-> <<>>, sk |-> <<>>, data |-> "null"],
                        cacheConfig.ttl, now)
    ELSE c
get_store(c, cacheKey, item) ==
    IF item # None /\ cacheConfig.enabled
    THEN LocalCache_set(c, cacheKey, item[1], cacheConfig.ttl, now) ELSE c

put_storeAlways(c, success, item) ==
    IF cacheConfig.enabled
    THEN LocalCache_set(c, itemCacheKey(item), item, cacheConfig.ttl, now) ELSE c
put_invalidate(c, success, item) ==
    IF success /\ cacheConfig.enabled
    THEN LocalCache_delete(c, itemCacheKey(item)).c ELSE c
put_store(c, success, item) ==
    IF success /\ cacheConfig.enabled
    THEN LocalCache_set(c, itemCacheKey(item), item, cacheConfig.ttl, now) ELSE c

update_keep(c, success, partitionValue, sortValue) == c
update_invalidate(c, success, partitionValue, sortValue) ==
    IF success /\ cacheConfig.enabled
    THEN LocalCache_delete(c, getCacheKey(partitionValue, sortValue)).c ELSE c

delete_invalidateAlways(c, partitionValue, sortValue) ==
    LocalCache_delete(c, getCacheKey(partitionValue, sortValue)).c
delete_invalidate(c, partitionValue, sortValue) ==
    IF cacheConfig.enabled
    THEN LocalCache_delete(c, getCacheKey(partitionValue, sortValue)).c ELSE c

query_simpleWithIndex(options) == cacheConfig.enabled /\ ~options.filterExpression
\* caching enabled and no complex options
query_simple(options) ==
    cacheConfig.enabled /\ ~options.filterExpression /\ ~options.indexName

query_storeFirst(c, simple, items) ==
    IF Len(items) > 0 /\ simple THEN SetAll(c, <<Head(items)>>, cacheConfig.ttl, now) ELSE c
query_store(c, simple, items) ==
    IF Len(items) > 0 /\ simple THEN SetAll(c, items, cacheConfig.ttl, now) ELSE c

batchGet_store(c, dynamoItems) ==
    IF cacheConfig.enabled THEN SetAll(c, dynamoItems, cacheConfig.ttl, now) ELSE c

batchGet_resultsFetchedFirst(hits, dynamoItems) == dynamoItems \o hits
\* results.push(cached) per hit, then results.push(...dynamoItems)
batchGet_results(hits, dynamoItems) == hits \o dynamoItems

batchPut_storeAlways(c, success, items) ==
    IF cacheConfig.enabled THEN SetAll(c, items, cacheConfig.ttl, now) ELSE c
batchPut_store(c, success, items) ==
    IF success /\ cacheConfig.enabled
    THEN SetAll(c, items, cacheConfig.ttl, now) ELSE c

batchDelete_invalidateFirst(c, keys) ==
    IF cacheConfig.enabled THEN DeleteFirst(c, keys) ELSE c
batchDelete_invalidate(c, keys) ==
    IF cacheConfig.enabled THEN DeleteAll(c, keys) ELSE c

\* get(partitionValue, sortValue)
get(partitionValue, sortValue, fail, rec) ==
    LET key == createKey(partitionValue, sortValue)
        cacheKey == getCacheKey(partitionValue, sortValue)
        r == IF cacheConfig.enabled THEN LocalCache_get(inst, cacheKey, now)
             ELSE [c |-> inst, ret |-> None]
    IN  IF r.ret # None
        THEN /\ ~fail
             /\ inst' = r.c
             /\ lastOp' = RecAfter(rec, "get", <<key>>, <<>>, r.ret, TRUE, <<>>)
             /\ UNCHANGED <<pending, objects, instances, now, store, cacheConfig, lastSet>>
        ELSE LET item == DynamoWrapper_get(store, partitionValue, sortValue, fail)
             IN  /\ inst' = get_store(r.c, cacheKey, item)
                 /\ lastOp' = RecAfter(rec, "get", <<key>>, <<>>, item, TRUE,
                                       <<Remote("get", <<key>>, TRUE, item)>>)
                 /\ UNCHANGED <<pending, objects, instances, now, store, cacheConfig, lastSet>>

\* put(item)
put(item, fail, rec) ==
    LET w == DynamoWrapper_put(store, item, fail)
        success == w.ret
    IN  /\ store' = w.tbl
        /\ inst' = put_store(inst, success, item)
        /\ lastOp' = Rec(rec, "put", <<itemKey(item)>>, <<item>>, None, success,
                         <<Remote("put", <<itemKey(item)>>, w.ret, <<>>)>>)
        /\ UNCHANGED <<pending, objects, instances, now, cacheConfig, lastSet>>

\* update(partitionValue, sortValue, attributes)
update(partitionValue, sortValue, attributes, fail, rec) ==
    LET key == createKey(partitionValue, sortValue)
        w == DynamoWrapper_update(store, partitionValue, sortValue, attributes, fail)
        success == w.ret
    IN  /\ store' = w.tbl
        /\ inst' = update_invalidate(inst, success, partitionValue, sortValue)
        /\ lastOp' = Rec(rec, "update", <<key>>, <<>>, None, success,
                         <<Remote("update", <<key>>, w.ret, <<>>)>>)
        /\ UNCHANGED <<pending, objects, instances, now, cacheConfig, lastSet>>

\* delete(partitionValue, sortValue)
delete(partitionValue, sortValue, fail, rec) ==
    LET key == createKey(partitionValue, sortValue)
        w == DynamoWrapper_delete(store, partitionValue, sortValue, fail)
        success == w.ret
    IN  /\ store' = w.tbl
        /\ inst' = delete_invalidate(inst, partitionValue, sortValue)
        /\ lastOp' = Rec(rec, "delete", <<key>>, <<>>, None, success,
                         <<Remote("delete", <<key>>, w.ret, <<>>)>>)
        /\ UNCHANGED <<pending, objects, instances, now, cacheConfig, lastSet>>

\* the history record of a query: the call before and the arguments
RecQuery(rec, partitionValue, options, ret, remote) ==
    IF rec
    THEN [RecAfter(rec, "query", NoKeys, <<>>, ret, TRUE, remote) EXCEPT
             !.args = <<[partitionValue |-> partitionValue, options |-> options]>>]
    ELSE Idle

\* query(partitionValue, options)
query(partitionValue, options, fail, rec) ==
    LET cachePrefix == partitionValue
        simple == query_simple(options)
        q == IF simple THEN LocalCache_query(inst, cachePrefix, now)
             ELSE [c |-> inst, ret |-> <<>>]
    IN  IF Len(q.ret) > 0
        THEN /\ ~fail
             /\ inst' = q.c
             /\ lastOp' = RecQuery(rec, partitionValue, options,
                                   IF TruthyNumber(options.limit)
                                   THEN Take(q.ret, options.limit) ELSE q.ret,
                                   <<>>)
             /\ UNCHANGED <<pending, objects, instances, now, store, cacheConfig, lastSet>>
        ELSE LET items == DynamoWrapper_query(store, partitionValue, options, fail)
             IN  /\ inst' = query_store(q.c, simple, items)
                 /\ lastOp' = RecQuery(rec, partitionValue, options, items,
                                       <<Remote("query", NoKeys, TRUE, items)>>)
                 /\ UNCHANGED <<pending, objects, instances, now, store, cacheConfig, lastSet>>

\* batchGet(keys)
batchGet(keys, fail, reversed, rec) ==
    LET l == IF cacheConfig.enabled THEN Lookup(inst, keys, now)
             ELSE [c |-> inst, results |-> <<>>, missingKeys |-> keys]
    IN  IF Len(l.missingKeys) > 0
        THEN LET dynamoItems == DynamoWrapper_batchGet(store, l.missingKeys, fail, reversed)
             IN  /\ inst' = batchGet_store(l.c, dynamoItems)
                 /\ lastOp' = Rec(rec, "batchGet", keys, <<>>,
                                  batchGet_results(l.results, dynamoItems), TRUE,
                                  <<Remote("batchGet", l.missingKeys, TRUE, dynamoItems)>>)
                 /\ UNCHANGED <<pending, objects, instances, now, store, cacheConfig, lastSet>>
        ELSE /\ ~fail /\ ~reversed
             /\ inst' = l.c
             /\ lastOp' = Rec(rec, "batchGet", keys, <<>>,
                              batchGet_results(l.results, <<>>), TRUE, <<>>)
             /\ UNCHANGED <<pending, objects, instances, now, store, cacheConfig, lastSet>>

\* batchPut(items)
batchPut(items, fail, rec) ==
    LET w == DynamoWrapper_batchPut(store, items, fail)
        success == w.ret
        keys == [i \in 1..Len(items) |-> itemKey(items[i])]
    IN  /\ store' = w.tbl
        /\ inst' = batchPut_store(inst, success, items)
        /\ lastOp' = Rec(rec, "batchPut", keys, items, None, success,
                         <<Remote("batchPut", keys, w.ret, <<>>)>>)
        /\ UNCHANGED <<pending, objects, instances, now, cacheConfig, lastSet>>

\* batchDelete(keys)
batchDelete(keys, fail, rec) ==
    LET w == DynamoWrapper_batchDelete(store, keys, fail)
        success == w.ret
    IN  /\ store' = w.tbl
        /\ inst' = batchDelete_invalidate(inst, keys)
        /\ lastOp' = Rec(rec, "batchDelete", keys, <<>>, None, success,
                         <<Remote("batchDelete", keys, w.ret, <<>>)>>)
        /\ UNCHANGED <<pending, objects, instances, now, cacheConfig, lastSet>>

\* setCacheEnabled(enabled)
\* a clearCache that leaves the cache as it is
clearCache_keep(c) == c

\* clearCache(): what it does to the cache instance; the history keeps the
\* entries the cache held before
clearCache_clear(c) == IF cacheConfig.enabled THEN LocalCache_clear(c) ELSE c

clearCache ==
    /\ inst' = clearCache_clear(inst)
    /\ lastOp' = [Rec(TRUE, "clearCache", NoKeys, <<>>, None, TRUE, <<>>) EXCEPT
                     !.cached = inst.cache]
    /\ UNCHANGED <<pending, objects, instances, now, store, cacheConfig, lastSet>>

\* getCacheSize(): the cache instance afterwards and the number returned
getCacheSize_size(c, t) ==
    IF cacheConfig.enabled THEN LocalCache_size(c, t) ELSE [c |-> c, ret |-> 0]

getCacheSize ==
    LET r == getCacheSize_size(inst, now)
    IN  /\ inst' = r.c
        /\ lastOp' = Rec(TRUE, "getCacheSize", NoKeys, <<>>, Some(r.ret), TRUE, <<>>)
        /\ UNCHANGED <<pending, objects, instances, now, store, cacheConfig, lastSet>>

setCacheEnabled(enabled) ==
    /\ cacheConfig' = [cacheConfig EXCEPT !.enabled = enabled]
    /\ lastOp' = Idle
    /\ UNCHANGED <<pending, objects, instances, now, inst, store, lastSet>>

\* the clock of the adapter's runs advances in whole seconds
Clock == \E d \in {1000} : Tick(d)

QueryOptions == [filterExpression : BOOLEAN, indexName : BOOLEAN, limit : {Undefined, 1}]
KeyLists == SeqsUpTo(Keys, MaxBatch)
ItemLists == {items \in SeqsUpTo(ItemsOf(store), MaxBatch) :
                  NoDuplicates([i \in 1..Len(items) |-> itemKey(items[i])])}

\* every operation of the adapter, H being the operations whose calls the
\* history records
Calls(H) ==
    \/ \E k \in Keys, fail \in BOOLEAN : get(k.pk, Some(k.sk), fail, "get" \in H)
    \/ \E item \in ItemsOf(store), fail \in BOOLEAN : put(item, fail, "put" \in H)
    \/ \E k \in Keys, d \in Data, fail \in BOOLEAN :
          update(k.pk, Some(k.sk), [data |-> d], fail, "update" \in H)
    \/ \E k \in Keys, fail \in BOOLEAN : delete(k.pk, Some(k.sk), fail, "delete" \in H)
    \/ \E pv \in PartitionsOf(store), options \in QueryOptions, fail \in BOOLEAN :
          query(pv, options, fail, "query" \in H)
    \/ \E keys \in KeyLists, fail \in BOOLEAN, reversed \in BOOLEAN :
          batchGet(keys, fail, reversed, "batchGet" \in H)
    \/ \E items \in ItemLists, fail \in BOOLEAN : batchPut(items, fail, "batchPut" \in H)
    \/ \E keys \in KeyLists, fail \in BOOLEAN : batchDelete(keys, fail, "batchDelete" \in H)

\* one adapter, caching left enabled
Next ==
    \/ Clock
    \/ Calls({})

Spec == Init /\ [][Next]_vars

\* new CachedDynamoWrapper(config) with cache.enabled true or false
InitAny ==
    /\ now = 0
    /\ inst = LocalCache_new(Undefined, tableName \o <<":">>, 0)
    /\ store = [k \in Keys |-> None]
    /\ \E ttl \in CfgTtls, enabled \in BOOLEAN :
          cacheConfig = [enabled |-> enabled, ttl |-> ttl]
    /\ lastOp = Idle
    /\ NoCalls
    /\ lastSet = [k \in CacheKeys |-> NoSet]
    /\ NoInstances

\* the same runs, with the history of get, put and update
NextPoint ==
    \/ Clock
    \/ Calls({"get", "put", "update"})

SpecPoint == InitAny /\ [][NextPoint]_vars

\* with the history of put, update and batchPut
NextWrite ==
    \/ Clock
    \/ Calls({"put", "update", "batchPut"})

SpecWrite == InitAny /\ [][NextWrite]_vars

\* the clock of runs long enough for the instance's cleanup sweep to be due:
\* a second passes, or the cleanup interval does
SweepClock ==
    \E d \in {1000, DefaultCleanupInterval} :
        /\ (now + d) % DefaultCleanupInterval <= 1000
        /\ Advance(d, MaxSweepNow)

\* runs of get, put and delete in which a sweep comes due, with the history
\* of get
NextGet ==
    \/ SweepClock
    \/ \E k \in Keys, fail \in BOOLEAN : get(k.pk, Some(k.sk), fail, TRUE)
    \/ \E item \in ItemsOf(store), fail \in BOOLEAN : put(item, fail, FALSE)
    \/ \E k \in Keys, fail \in BOOLEAN : delete(k.pk, Some(k.sk), fail, FALSE)

SpecGet == InitAny /\ [][NextGet]_vars

\* runs of put, delete and batchDelete with caching switched off and on, with
\* the history of delete and batchDelete
NextDelete ==
    \/ Clock
    \/ \E item \in ItemsOf(store), fail \in BOOLEAN : put(item, fail, FALSE)
    \/ \E k \in Keys, fail \in BOOLEAN : delete(k.pk, Some(k.sk), fail, TRUE)
    \/ \E keys \in KeyLists, fail \in BOOLEAN : batchDelete(keys, fail, TRUE)
    \/ \E enabled \in BOOLEAN : setCacheEnabled(enabled)

SpecDelete == InitAny /\ [][NextDelete]_vars

\* the clock of runs in which every step outlives the entries cached with a ttl
ExpiryClock == \E d \in {2000} : Advance(d, MaxNow)

\* runs of put, delete and batchGet with caching switched off and on, with
\* the history of batchGet
NextBatchGet ==
    \/ ExpiryClock
    \/ \E item \in ItemsOf(store), fail \in BOOLEAN : put(item, fail, FALSE)
    \/ \E k \in Keys, fail \in BOOLEAN : delete(k.pk, Some(k.sk), fail, FALSE)
    \/ \E keys \in KeyLists, fail \in BOOLEAN, reversed \in BOOLEAN :
          batchGet(keys, fail, reversed, TRUE)
    \/ \E enabled \in BOOLEAN : setCacheEnabled(enabled)

SpecBatchGet == InitAny /\ [][NextBatchGet]_vars

-----------------------------------------------------------------------------
(* C1 *)

\* the last call was get(k) on a key whose latest set(k, v, t), t > 0, still stands
ReadAfterSet(k) ==
    /\ lastOp.op = "cache.get"
    /\ lastOp.keys = <<k>>
    /\ lastSet[k] # NoSet
    /\ lastSet[k].ttl > 0

\* C1 as stated: get(k) returns v at every read time less than t seconds after
\* set(k, v, t) and absent at every read time t seconds or more after it.
C1_AsStated ==
    \A k \in CacheKeys :
        ReadAfterSet(k) =>
            lastOp.ret = IF now - lastSet[k].at < lastSet[k].ttl * 1000
                         THEN Some(lastSet[k].value) ELSE None

\* C1 (amended): get(k) returns v at every read time less than t seconds after
\* set(k, v, t), and absent at every read time t + 1 seconds or more after it;
\* exactly, it returns v while floor(now/1000) <= floor(setTime/1000) + t and
\* absent afterwards, whether or not a cleanup sweep has run.
C1_TtlCorrectness ==
    \A k \in CacheKeys :
        ReadAfterSet(k) =>
            /\ now - lastSet[k].at < lastSet[k].ttl * 1000
                  => lastOp.ret = Some(lastSet[k].value)
            /\ now - lastSet[k].at >= (lastSet[k].ttl + 1) * 1000
                  => lastOp.ret = None
            /\ lastOp.ret = IF Seconds(now) <= Seconds(lastSet[k].at) + lastSet[k].ttl
                            THEN Some(lastSet[k].value) ELSE None

\* a read t seconds or more after the set that still returns the value,
\* after a cleanup sweep has run
C1_Witness ==
    \E k \in CacheKeys :
        /\ ReadAfterSet(k)
        /\ now - lastSet[k].at >= lastSet[k].ttl * 1000
        /\ lastOp.ret = Some(lastSet[k].value)
        /\ inst.lastCleanup > lastSet[k].at

-----------------------------------------------------------------------------
(* The adapter's cache, as the claims below read it *)

TablePrefix == <<"t", ":">>
DerivedKey(pk, sk) == TablePrefix \o pk \o <<":">> \o sk
HasEntry(key) == \E i \in 1..Len(inst.cache) : inst.cache[i].key = DerivedKey(key.pk, key.sk)
EntryOf(key) ==
    inst.cache[CHOOSE i \in 1..Len(inst.cache) : inst.cache[i].key = DerivedKey(key.pk, key.sk)]
Unexpired(item) == item.ttl = Undefined \/ item.ttl = 0 \/ item.ttl >= Seconds(now)

\* a recorded get that went to the table and got an item / got nothing
GetMissFound(op) == op.op = "get" /\ op.remote # <<>> /\ op.ret # None
GetMissNull(op) == op.op = "get" /\ op.remote # <<>> /\ op.ret = None

\* the last call is a get whose preceding call satisfies P and had the same key
GetAfter(P(_)) ==
    /\ lastOp.op = "get"
    /\ lastOp.prev # <<>>
    /\ P(lastOp.prev[1])
    /\ lastOp.prev[1].keys = lastOp.keys

-----------------------------------------------------------------------------
(* C2 *)

C2_Cached(noExpiry) ==
    cacheConfig.enabled =>
        /\ GetMissFound(lastOp) =>
              LET key == lastOp.keys[1]
              IN  /\ HasEntry(key)
                  /\ EntryOf(key).value = lastOp.ret[1]
                  /\ EntryOf(key).ttl = IF cacheConfig.ttl \in noExpiry THEN Undefined
                                        ELSE Seconds(now) + cacheConfig.ttl
        /\ GetAfter(GetMissFound) =>
              /\ lastOp.remote = <<>>
              /\ lastOp.ret = lastOp.prev[1].ret

\* C2 as stated: with caching enabled, after a get that missed the cache and
\* found the item in the table, the item is cached under its key with expiry
\* now + ttl, with no expiry only when no ttl is configured, and the next get
\* of that key returns it without a remote call.
C2_AsStated == C2_Cached({Undefined})

\* C2 (amended): the same, the entry having no expiry when no ttl or a ttl
\* of 0 is configured, and expiry floor(now / 1000) + ttl otherwise.
C2_ReadThrough == C2_Cached({Undefined, 0})

\* a get served from the cache right after the get that cached the item with
\* an expiry one second ahead of a clock that has advanced
C2_Witness ==
    /\ cacheConfig.enabled
    /\ cacheConfig.ttl = 1
    /\ now > 0
    /\ GetAfter(GetMissFound)
    /\ lastOp.remote = <<>>
    /\ EntryOf(lastOp.keys[1]).ttl = Seconds(now) + 1

-----------------------------------------------------------------------------
(* C3 *)

SuccessfulPut(op) == op.op = "put" /\ op.ok

\* C3: with caching enabled, a get that directly follows a successful put of
\* an item with the same key returns that item and makes no remote call.
C3_WriteThenRead ==
    (cacheConfig.enabled /\ GetAfter(SuccessfulPut)) =>
        /\ lastOp.ret = Some(lastOp.prev[1].items[1])
        /\ lastOp.remote = <<>>

\* the put replaced another cached version of the item
C3_Witness ==
    /\ cacheConfig.enabled
    /\ GetAfter(SuccessfulPut)
    /\ lastOp.prev[1].cached[1] # None
    /\ lastOp.prev[1].cached[1] # Some(lastOp.prev[1].items[1])
    /\ lastOp.ret = Some(lastOp.prev[1].items[1])

-----------------------------------------------------------------------------
(* C4 *)

UpdateOfCached(op) == op.op = "update" /\ op.cached[1] # None
SuccessfulUpdateOfCached(op) == UpdateOfCached(op) /\ op.ok

C4_Evicts(P(_)) ==
    cacheConfig.enabled =>
        /\ P(lastOp) => ~HasEntry(lastOp.keys[1])
        /\ GetAfter(P) =>
              /\ Len(lastOp.remote) = 1
              /\ lastOp.remote[1].m = "get"

\* C4 as stated: with caching enabled and the key's item cached, an update of
\* the key evicts the entry and the get that follows makes exactly one remote
\* read.
C4_AsStated == C4_Evicts(UpdateOfCached)

\* C4 (amended): the same for an update that succeeds.
C4_UpdateInvalidates == C4_Evicts(SuccessfulUpdateOfCached)

\* the get after the update read the updated item from the table
C4_Witness ==
    /\ cacheConfig.enabled
    /\ GetAfter(SuccessfulUpdateOfCached)
    /\ Len(lastOp.remote) = 1
    /\ lastOp.ret # None
    /\ lastOp.ret # lastOp.prev[1].cached[1]

-----------------------------------------------------------------------------
(* C5 *)

\* C5: with one adapter as the only writer and caching enabled, after every
\* operation each unexpired cache entry holds the item the table holds under
\* the entry's key.
C5_CacheMatchesStore ==
    \A i \in 1..Len(inst.cache) :
        LET item == inst.cache[i]
        IN  Unexpired(item) =>
                /\ item.key = DerivedKey(item.value.pk, item.value.sk)
                /\ store[[pk |-> item.value.pk, sk |-> item.value.sk]] = Some(item.value)

\* an unexpired entry next to an expired one, the table holding both items
C5_Witness ==
    /\ Len(inst.cache) = 2
    /\ \E i, j \in 1..2 : Unexpired(inst.cache[i]) /\ ~Unexpired(inst.cache[j])
    /\ \A k \in Keys : store[k] # None

-----------------------------------------------------------------------------
(* C6 *)

NoEntryAdded == \A i \in 1..Len(inst'.cache) : \E j \in 1..Len(inst.cache) :
                    inst.cache[j] = inst'.cache[i]
UnexpiredKept == SelectSeq(inst'.cache, Unexpired) = SelectSeq(inst.cache, Unexpired)

RepeatedMissCallsAgain ==
    (lastOp'.op = "get" /\ lastOp'.prev # <<>> /\ GetMissNull(lastOp'.prev[1])
        /\ lastOp'.prev[1].keys = lastOp'.keys) => lastOp'.remote # <<>>

\* C6 as stated: a get that misses the cache and whose item is not in the
\* table returns absent and leaves the cache unchanged, and a repetition of
\* it calls the table again.
C6_AsStated ==
    [][/\ (lastOp'.op = "get" /\ lastOp'.remote # <<>> /\ store[lastOp'.keys[1]] = None)
            => (lastOp'.ret = None /\ inst'.cache = inst.cache)
       /\ RepeatedMissCallsAgain]_vars

\* C6 (amended): a get that misses the cache and gets nothing from the table
\* returns absent, adds or changes no cache entry and keeps every unexpired
\* one (the lookup removes the key's entry when its expiry has passed), and a
\* repetition of it calls the table again.
C6_NoNegativeCaching ==
    [][/\ GetMissNull(lastOp') => (NoEntryAdded /\ UnexpiredKept)
       /\ (lastOp'.op = "get" /\ lastOp'.remote # <<>> /\ store[lastOp'.keys[1]] = None)
            => lastOp'.ret = None
       /\ RepeatedMissCallsAgain]_vars

\* the same get twice in a row, the item not in the table, both calling it
C6_Witness ==
    /\ cacheConfig.enabled
    /\ GetAfter(GetMissNull)
    /\ GetMissNull(lastOp)
    /\ store[lastOp.keys[1]] = None
    /\ Len(inst.cache) > 0

-----------------------------------------------------------------------------
(* C7 *)

\* C7: when the table reports failure for a put, update or batchPut, the
\* cache instance is left as it was and the adapter returns the failure.
C7_FailedWriteSkipsCache ==
    [][(lastOp'.op \in {"put", "update", "batchPut"} /\ ~lastOp'.remote[1].ok)
          => (inst' = inst /\ lastOp'.ok = FALSE)]_vars

\* a failed batchPut of two items over a cache that holds another version of one
C7_Witness ==
    /\ cacheConfig.enabled
    /\ lastOp.op = "batchPut"
    /\ Len(lastOp.items) = 2
    /\ ~lastOp.ok
    /\ lastOp.cached[1] # None
    /\ lastOp.cached[1] # Some(lastOp.items[1])
    /\ EntryOf(lastOp.keys[1]).value = lastOp.cached[1][1]

-----------------------------------------------------------------------------
(* C8 *)

DeleteCall == lastOp.op \in {"delete", "batchDelete"}
Evicted == \A i \in 1..Len(lastOp.keys) : ~HasEntry(lastOp.keys[i])
ReturnsRemoteOutcome == lastOp.ok = lastOp.remote[1].ok

\* C8 as stated: delete removes the key's cache entry and batchDelete the
\* entry of every listed key, whatever the table reports, and the adapter
\* returns what the table reported.
C8_AsStated == DeleteCall => (Evicted /\ ReturnsRemoteOutcome)

\* C8 (amended): the same with caching enabled; with caching disabled the
\* cache is left alone.  The adapter returns the table's outcome either way.
C8_DeleteEvicts ==
    DeleteCall => /\ cacheConfig.enabled => Evicted
                  /\ ReturnsRemoteOutcome

\* a batchDelete of two cached keys that the table rejected
C8_Witness ==
    /\ cacheConfig.enabled
    /\ lastOp.op = "batchDelete"
    /\ Len(lastOp.keys) = 2
    /\ lastOp.keys[1] # lastOp.keys[2]
    /\ \A i \in 1..2 : lastOp.cached[i] # None
    /\ ~lastOp.ok
    /\ Evicted

-----------------------------------------------------------------------------
(* C9 *)

RECURSIVE MissedKeys(_, _)
MissedKeys(keys, cached) ==
    IF keys = <<>> THEN <<>>
    ELSE (IF Head(cached) = None THEN <<Head(keys)>> ELSE <<>>)
             \o MissedKeys(Tail(keys), Tail(cached))

RECURSIVE Hits(_)
Hits(cached) == IF cached = <<>> THEN <<>> ELSE Head(cached) \o Hits(Tail(cached))

OneBatchCallFor(keys) ==
    /\ Len(lastOp.remote) = 1
    /\ lastOp.remote[1].m = "batchGet"
    /\ lastOp.remote[1].keys = keys

\* C9 as stated: a batchGet of N >= 1 keys, M of them cached, 0 <= M <= N,
\* makes exactly one remote batch call, for exactly the N - M keys that missed.
C9_AsStated ==
    (lastOp.op = "batchGet" /\ Len(lastOp.keys) > 0) =>
        OneBatchCallFor(MissedKeys(lastOp.keys, lastOp.cached))

\* C9 (amended): with caching enabled, a batchGet makes exactly one remote
\* batch call, for exactly the keys that missed, when some key missed
\* (M < N), and no remote call when every key was cached (M = N).
C9_BatchGetPartition ==
    (lastOp.op = "batchGet" /\ cacheConfig.enabled) =>
        LET missed == MissedKeys(lastOp.keys, lastOp.cached)
        IN  /\ Len(missed) = Len(lastOp.keys) - Len(Hits(lastOp.cached))
            /\ IF missed = <<>> THEN lastOp.remote = <<>>
               ELSE OneBatchCallFor(missed)

\* two keys, the first cached: one call for the second
C9_Witness ==
    /\ cacheConfig.enabled
    /\ lastOp.op = "batchGet"
    /\ Len(lastOp.keys) = 2
    /\ lastOp.cached[1] # None
    /\ lastOp.cached[2] = None
    /\ OneBatchCallFor(<<lastOp.keys[2]>>)

-----------------------------------------------------------------------------
(* C10 *)

Fetched == IF lastOp.remote = <<>> THEN <<>> ELSE lastOp.remote[1].ret
FetchedAreCached ==
    \A i \in 1..Len(Fetched) :
        /\ HasEntry([pk |-> Fetched[i].pk, sk |-> Fetched[i].sk])
        /\ EntryOf([pk |-> Fetched[i].pk, sk |-> Fetched[i].sk]).value = Fetched[i]
HitsThenFetched ==
    lastOp.ret = (IF cacheConfig.enabled THEN Hits(lastOp.cached) ELSE <<>>) \o Fetched

\* C10 as stated: batchGet returns the cache hits in input order followed by
\* the fetched items in the table's order, and every fetched item is in the
\* cache when it returns.
C10_AsStated == lastOp.op = "batchGet" => (HitsThenFetched /\ FetchedAreCached)

\* C10 (amended): the same, the fetched items being in the cache when
\* caching is enabled.
C10_BatchGetOrder ==
    lastOp.op = "batchGet" =>
        /\ HitsThenFetched
        /\ cacheConfig.enabled => FetchedAreCached

\* keys (miss, hit): the hit comes first in the result, the fetched item after
C10_Witness ==
    /\ cacheConfig.enabled
    /\ lastOp.op = "batchGet"
    /\ Len(lastOp.keys) = 2
    /\ lastOp.cached[1] = None
    /\ lastOp.cached[2] # None
    /\ Len(lastOp.ret) = 2
    /\ lastOp.ret[1] = lastOp.cached[2][1]
    /\ FetchedAreCached
-----------------------------------------------------------------------------
(* C11 *)

\* every operation of the adapter with caching switched off and on, with the
\* history of get and put
NextDisabled ==
    \/ ExpiryClock
    \/ Calls({"get", "put"})
    \/ \E enabled \in BOOLEAN : setCacheEnabled(enabled)

SpecDisabled == InitAny /\ [][NextDisabled]_vars

\* C11: while the enabled flag is false, every get and every put makes one
\* remote call for its key, also when the key is cached, and no operation of
\* the adapter changes the cache instance (a read would remove an expired
\* entry or move the time of the last cleanup).
C11_DisabledBypassesCache ==
    [][~cacheConfig.enabled =>
          /\ inst' = inst
          /\ lastOp'.op \in {"get", "put"} =>
                /\ Len(lastOp'.remote) = 1
                /\ lastOp'.remote[1].m = lastOp'.op
                /\ lastOp'.remote[1].keys = lastOp'.keys]_vars

\* a get of a key whose entry has expired in the cache, with caching off
C11_Witness ==
    /\ ~cacheConfig.enabled
    /\ lastOp.op = "get"
    /\ Len(lastOp.remote) = 1
    /\ HasEntry(lastOp.keys[1])
    /\ ~Unexpired(EntryOf(lastOp.keys[1]))
    /\ \E k \in Keys : HasEntry(k) /\ Unexpired(EntryOf(k))
-----------------------------------------------------------------------------
(* C12 *)

\* runs of put, delete and query with caching switched off and on, with the
\* history of query
NextQuery ==
    \/ ExpiryClock
    \/ \E item \in ItemsOf(store), fail \in BOOLEAN : put(item, fail, FALSE)
    \/ \E k \in Keys, fail \in BOOLEAN : delete(k.pk, Some(k.sk), fail, FALSE)
    \/ \E pv \in PartitionsOf(store), options \in QueryOptions, fail \in BOOLEAN :
          query(pv, options, fail, TRUE)
    \/ \E enabled \in BOOLEAN : setCacheEnabled(enabled)

SpecQuery == InitAny /\ [][NextQuery]_vars

SimpleOptions(op) ==
    ~op.args[1].options.filterExpression /\ ~op.args[1].options.indexName

\* a recorded simple query that found nothing cached and got items from the table
QueryMissFound(op) ==
    op.op = "query" /\ SimpleOptions(op) /\ op.remote # <<>> /\ Len(op.ret) > 0

\* C12: with caching enabled, after a simple query(p) that found nothing
\* cached for p and got n > 0 items from the table, each returned item is
\* cached under the key derived from its own partition and sort values, and
\* the same query repeated at once returns the same n items without a
\* remote call.
C12_QueryReadThrough ==
    cacheConfig.enabled =>
        /\ QueryMissFound(lastOp) =>
              \A i \in 1..Len(lastOp.ret) :
                  LET key == [pk |-> lastOp.ret[i].pk, sk |-> lastOp.ret[i].sk]
                  IN  HasEntry(key) /\ EntryOf(key).value = lastOp.ret[i]
        /\ (lastOp.op = "query" /\ lastOp.prev # <<>> /\ QueryMissFound(lastOp.prev[1])
               /\ lastOp.prev[1].args = lastOp.args)
              => (lastOp.remote = <<>> /\ lastOp.ret = lastOp.prev[1].ret)

\* two items came from the table and the repeated query returned both
C12_Witness ==
    /\ cacheConfig.enabled
    /\ lastOp.op = "query"
    /\ lastOp.prev # <<>>
    /\ QueryMissFound(lastOp.prev[1])
    /\ lastOp.prev[1].args = lastOp.args
    /\ lastOp.remote = <<>>
    /\ Len(lastOp.ret) = 2

-----------------------------------------------------------------------------
(* C13 *)

ComplexQuery(op) == op.op = "query" /\ ~SimpleOptions(op)

\* C13: a query whose options carry an index name or a filter expression
\* makes one remote call, returns what the table returned and leaves the
\* cache instance as it was.
C13_ComplexQueryBypassesCache ==
    [][ComplexQuery(lastOp') =>
          /\ Len(lastOp'.remote) = 1
          /\ lastOp'.remote[1].m = "query"
          /\ lastOp'.ret = lastOp'.remote[1].ret
          /\ inst' = inst]_vars

\* an index query answered by the table while the cache holds, for the same
\* partition, an item the table does not
C13_Witness ==
    /\ cacheConfig.enabled
    /\ ComplexQuery(lastOp)
    /\ lastOp.args[1].options.indexName
    /\ Len(lastOp.ret) = 1
    /\ \E k \in Keys : /\ k.pk = lastOp.args[1].partitionValue
                       /\ HasEntry(k) /\ Unexpired(EntryOf(k)) /\ store[k] = None
-----------------------------------------------------------------------------
(* LocalCache.getInstance and the calls made through the handles it returns *)

\* the options callers pass: none, the adapter's { prefix }, and a full set
NoOptions == [cleanupInterval |-> Undefined, enableLogging |-> None, prefix |-> <<>>]
InstanceOptions ==
    {NoOptions,
     [NoOptions EXCEPT !.prefix = tableName \o <<":">>],
     [cleanupInterval |-> 2000, enableLogging |-> Some(TRUE), prefix |-> <<>>]}

HandleKeys == {<<"k">>}
HandleValues == {<<>>, <<"a">>, <<"b">>}
HandleTtls == {Undefined, 1}
HandlePrefixes == {<<>>, <<"k">>}

\* new LocalCache(options)
LocalCache_construct(options, t) ==
    LocalCache_new(options.cleanupInterval, options.prefix, t)
        @@ [enableLogging |-> IF options.enableLogging = None THEN FALSE
                              ELSE options.enableLogging[1]]

getInstance_hasNever(m, name) == FALSE
\* LocalCache.instances.has(name)
getInstance_has(m, name) == m[name] # NotRegistered

\* getInstance(name = "default", options)
getInstance(nameOpt, options) ==
    LET name == IF nameOpt = None THEN "default" ELSE nameOpt[1]
        registered == getInstance_has(instances, name)
    IN  /\ IF registered
           THEN UNCHANGED <<objects, instances>>
           ELSE /\ objects' = Append(objects, LocalCache_construct(options, now))
                /\ instances' = [instances EXCEPT ![name] = Len(objects) + 1]
        /\ lastOp' = [Op("getInstance", NoKeys, <<>>, Some(instances'[name]), TRUE, <<>>)
                         EXCEPT !.args = <<[name |-> name, options |-> options,
                                            registered |-> instances[name] # NotRegistered]>>]
        /\ UNCHANGED <<pending, now, inst, store, cacheConfig, lastSet>>

withThisShared(objs, h, c) ==
    [i \in 1..Len(objs) |-> IF i = h THEN c ELSE [objs[i] EXCEPT !.cache = c.cache]]
\* a method's effect on this: cache and lastCleanup are fields of the object
withThis(objs, h, c) == [objs EXCEPT ![h] = c]

\* a call through handle h that leaves the object as c and returns ret; the
\* history keeps what get would have returned for the call's keys before it
Through(h, name, keys, items, c, ret) ==
    /\ objects' = withThis(objects, h, c)
    /\ lastOp' = [Op(name, keys, items, ret, TRUE, <<>>) EXCEPT
                     !.args = <<h>>,
                     !.cached = [i \in 1..Len(keys) |-> Cached(objects[h], keys[i], now)]]
    /\ UNCHANGED <<pending, now, inst, store, cacheConfig, lastSet, instances>>

Handle_set(h, k, v, ttlSeconds) ==
    Through(h, "cache.set", <<k>>, <<v, ttlSeconds>>,
            LocalCache_set(objects[h], k, v, ttlSeconds, now), None)
Handle_get(h, k) ==
    LET r == LocalCache_get(objects[h], k, now)
    IN  Through(h, "cache.get", <<k>>, <<>>, r.c, r.ret)
Handle_has(h, k) ==
    LET r == LocalCache_has(objects[h], k, now)
    IN  Through(h, "cache.has", <<k>>, <<>>, r.c, Some(r.ret))
Handle_delete(h, k) ==
    LET r == LocalCache_delete(objects[h], k)
    IN  Through(h, "cache.delete", <<k>>, <<>>, r.c, Some(r.ret))
Handle_clear(h) ==
    Through(h, "cache.clear", NoKeys, <<>>, LocalCache_clear(objects[h]), None)
Handle_query(h, prefix) ==
    LET r == LocalCache_query(objects[h], prefix, now)
    IN  Through(h, "cache.query", NoKeys, <<prefix>>, r.c, Some(r.ret))
Handle_keys(h) ==
    LET r == LocalCache_keys(objects[h], now)
    IN  Through(h, "cache.keys", NoKeys, <<>>, r.c, Some(r.ret))
Handle_values(h) ==
    LET r == LocalCache_values(objects[h], now)
    IN  Through(h, "cache.values", NoKeys, <<>>, r.c, Some(r.ret))
Handle_entries(h) ==
    LET r == LocalCache_entries(objects[h], now)
    IN  Through(h, "cache.entries", NoKeys, <<>>, r.c, Some(r.ret))
Handle_size(h) ==
    LET r == LocalCache_size(objects[h], now)
    IN  Through(h, "cache.size", NoKeys, <<>>, r.c, Some(r.ret))

HandleOps == {"cache.set", "cache.get", "cache.has", "cache.delete", "cache.clear",
              "cache.query", "cache.keys", "cache.values", "cache.entries", "cache.size"}

NextInstances ==
    \/ ExpiryClock
    \/ \E nameOpt \in {None} \cup {Some(name) : name \in Names},
          options \in InstanceOptions : getInstance(nameOpt, options)
    \/ \E h \in 1..Len(objects) :
          \/ \E k \in HandleKeys, v \in HandleValues, t \in HandleTtls : Handle_set(h, k, v, t)
          \/ \E k \in HandleKeys : Handle_get(h, k)
          \/ \E k \in HandleKeys : Handle_has(h, k)
          \/ \E k \in HandleKeys : Handle_delete(h, k)
          \/ Handle_clear(h)
          \/ \E prefix \in HandlePrefixes : Handle_query(h, prefix)
          \/ Handle_keys(h)
          \/ Handle_values(h)
          \/ Handle_entries(h)
          \/ Handle_size(h)

\* no instance registered yet
InitInstances ==
    /\ now = 0
    /\ inst = LocalCache_new(Undefined, <<>>, 0)
    /\ store = <<>>
    /\ cacheConfig = [enabled |-> FALSE, ttl |-> Undefined]
    /\ lastOp = Idle
    /\ NoCalls
    /\ lastSet = [k \in CacheKeys |-> NoSet]
    /\ NoInstances

SpecInstances == InitInstances /\ [][NextInstances]_vars

-----------------------------------------------------------------------------
(* C14 *)

\* C14: getInstance(name) for a registered name returns the registered
\* object and changes neither it nor the registry, whatever options are
\* passed; no step changes an object's cleanupInterval, prefix or logging
\* flag, and the registry never replaces or removes an instance.
C14_SingletonPerName ==
    [][/\ \A name \in Names :
             instances[name] # NotRegistered => instances'[name] = instances[name]
       /\ \A h \in 1..Len(objects) :
             /\ h <= Len(objects')
             /\ objects'[h].cleanupInterval = objects[h].cleanupInterval
             /\ objects'[h].prefix = objects[h].prefix
             /\ objects'[h].enableLogging = objects[h].enableLogging
       /\ (lastOp'.op = "getInstance"
              /\ instances[lastOp'.args[1].name] # NotRegistered)
            => /\ lastOp'.ret = Some(instances[lastOp'.args[1].name])
               /\ objects' = objects
               /\ instances' = instances]_vars

\* getInstance of a registered name whose object holds an entry, with options
\* other than the ones it was constructed with
C14_Witness ==
    /\ lastOp.op = "getInstance"
    /\ lastOp.args[1].registered
    /\ LET c == objects[lastOp.ret[1]]
       IN  /\ Len(c.cache) > 0
           /\ c.prefix # lastOp.args[1].options.prefix
           /\ c.cleanupInterval # 2000
           /\ lastOp.args[1].options.cleanupInterval = 2000

-----------------------------------------------------------------------------
(* C15 *)

\* C15: instances registered under different names are different objects,
\* and a call through one handle (set, delete, clear or any read) leaves the
\* object behind every other handle as it was, so that what get, has, query,
\* keys, values, entries and size return there does not change.
C15_InstanceIsolation ==
    [][/\ \A n1, n2 \in Names :
             (n1 # n2 /\ instances'[n1] # NotRegistered) => instances'[n1] # instances'[n2]
       /\ lastOp'.op \in HandleOps =>
             \A h \in 1..Len(objects) :
                 lastOp'.args # <<h>> => objects'[h] = objects[h]]_vars

\* two instances with the same prefix hold different values under the same
\* key, and a get through one has returned its own
C15_Witness ==
    \E h1, h2 \in 1..Len(objects) :
        /\ h1 # h2
        /\ objects[h1].prefix = objects[h2].prefix
        /\ Len(objects[h1].cache) = 1
        /\ Len(objects[h2].cache) = 1
        /\ objects[h1].cache[1].key = objects[h2].cache[1].key
        /\ objects[h1].cache[1].value # objects[h2].cache[1].value
        /\ lastOp.op = "cache.get"
        /\ lastOp.args = <<h1>>
        /\ lastOp.ret = Some(objects[h1].cache[1].value)
-----------------------------------------------------------------------------
(* One instance and the keys callers use with it *)

\* caller keys: the empty key, a plain one, and one that begins like a prefix
EnumKeys == {<<>>, <<"k">>, <<"t", ":", "k">>}

\* getInstance() has returned the one instance, constructed with some options
InitEnum ==
    /\ now = 0
    /\ inst = LocalCache_new(Undefined, <<>>, 0)
    /\ store = <<>>
    /\ cacheConfig = [enabled |-> FALSE, ttl |-> Undefined]
    /\ lastOp = Idle
    /\ NoCalls
    /\ lastSet = [k \in CacheKeys |-> NoSet]
    /\ \E options \in InstanceOptions : objects = <<LocalCache_construct(options, 0)>>
    /\ instances = [name \in Names |-> IF name = "default" THEN 1 ELSE NotRegistered]

NextEnum ==
    \/ ExpiryClock
    \/ \E k \in EnumKeys, v \in HandleValues, t \in HandleTtls : Handle_set(1, k, v, t)
    \/ \E k \in EnumKeys : Handle_has(1, k)
    \/ Handle_keys(1)
    \/ Handle_entries(1)
    \/ Handle_values(1)
    \/ Handle_size(1)

SpecEnum == InitEnum /\ [][NextEnum]_vars

\* the object the last call went through
This == objects[lastOp.args[1]]

-----------------------------------------------------------------------------
(* C16 *)

\* C16: every stored key is keyPrefix + k for a caller key k, keys() and
\* entries() return those caller keys, in the entries' order, and after a
\* set(k, v) with a truthy v that leaves one entry keys() is exactly [k].
C16_PrefixTransparency ==
    /\ \A i \in 1..Len(objects[1].cache) :
          \E k \in EnumKeys : objects[1].cache[i].key = objects[1].prefix \o k
    /\ lastOp.op = "cache.keys" =>
          /\ Len(lastOp.ret[1]) = Len(This.cache)
          /\ \A i \in 1..Len(This.cache) :
                /\ lastOp.ret[1][i] \in EnumKeys
                /\ This.cache[i].key = This.prefix \o lastOp.ret[1][i]
    /\ lastOp.op = "cache.entries" =>
          /\ Len(lastOp.ret[1]) = Len(This.cache)
          /\ \A i \in 1..Len(This.cache) :
                /\ lastOp.ret[1][i][1] \in EnumKeys
                /\ This.cache[i].key = This.prefix \o lastOp.ret[1][i][1]
                /\ This.cache[i].value = lastOp.ret[1][i][2]
    /\ (lastOp.op = "cache.set" /\ ~Falsy(lastOp.items[1]) /\ Len(This.cache) = 1)
          => LocalCache_keys(This, now).ret = lastOp.keys

\* keys() of an instance with prefix "t:" has returned the key "t:k"
C16_Witness ==
    /\ lastOp.op = "cache.keys"
    /\ This.prefix = <<"t", ":">>
    /\ Len(lastOp.ret[1]) = 2
    /\ lastOp.ret[1][1] = <<"t", ":", "k">>
    /\ This.cache[1].key = <<"t", ":", "t", ":", "k">>

-----------------------------------------------------------------------------
(* C17 *)

FalsySet(op) == op.op = "cache.set" /\ Falsy(op.items[1])

\* the entries of c under other keys than fullKey that satisfy P
Others(c, fullKey, P(_)) == SelectSeq(c.cache, LAMBDA item : item.key # fullKey /\ P(item))
AnyItem(item) == TRUE

\* after a set with a falsy value: no entry for the key, has(key) false
Removed(h, key) ==
    /\ \A i \in 1..Len(objects'[h].cache) :
          objects'[h].cache[i].key # objects[h].prefix \o key
    /\ ~LocalCache_has(objects'[h], key, now).ret

\* C17 as stated: set(k, v) with a falsy v stores nothing and removes the
\* entry of k, has(k) is false afterwards, and the entries under other keys
\* are unchanged.
C17_AsStated ==
    [][FalsySet(lastOp') =>
          LET h == lastOp'.args[1]
              fullKey == objects[h].prefix \o lastOp'.keys[1]
          IN  /\ Removed(h, lastOp'.keys[1])
              /\ Others(objects'[h], fullKey, AnyItem) = Others(objects[h], fullKey, AnyItem)]_vars

\* C17 (amended): the same, the unexpired entries under other keys being
\* unchanged and no entry being added or changed (the cleanup that set runs
\* first removes the expired entries when a sweep is due).
C17_FalsySetDeletes ==
    [][FalsySet(lastOp') =>
          LET h == lastOp'.args[1]
              fullKey == objects[h].prefix \o lastOp'.keys[1]
          IN  /\ Removed(h, lastOp'.keys[1])
              /\ Others(objects'[h], fullKey, Unexpired) = Others(objects[h], fullKey, Unexpired)
              /\ \A i \in 1..Len(objects'[h].cache) :
                    \E j \in 1..Len(objects[h].cache) :
                        objects[h].cache[j] = objects'[h].cache[i]]_vars

\* a set without a value of a key that held a live value, another key's
\* entry staying
C17_Witness ==
    /\ FalsySet(lastOp)
    /\ lastOp.cached[1] # None
    /\ Len(This.cache) = 1
    /\ Unexpired(This.cache[1])

-----------------------------------------------------------------------------
(* C18 *)

LiveCount(c) == Len(SelectSeq(c.cache, Unexpired))

\* C18 as stated: size() returns the number of keys for which has(key) is
\* true at that moment, not counting entries whose expiry has passed.
C18_AsStated == lastOp.op = "cache.size" => lastOp.ret = Some(LiveCount(This))

\* C18 (amended): size() runs the lazy cleanup and returns the number of
\* entries then stored: the live entry count when the sweep was due, and
\* otherwise the live entries and the expired entries not yet removed.
C18_SizeCountsStored ==
    [][lastOp'.op = "cache.size" =>
          LET h == lastOp'.args[1]
          IN  /\ lastOp'.ret = Some(Len(objects'[h].cache))
              /\ lastOp'.ret[1] >= LiveCount(objects'[h])
              /\ SelectSeq(objects'[h].cache, Unexpired) = SelectSeq(objects[h].cache, Unexpired)
              /\ now - objects[h].lastCleanup >= objects[h].cleanupInterval
                    => lastOp'.ret = Some(LiveCount(objects'[h]))]_vars

\* size() has counted an entry whose expiry has passed
C18_Witness ==
    /\ lastOp.op = "cache.size"
    /\ lastOp.ret = Some(2)
    /\ LiveCount(This) = 1
-----------------------------------------------------------------------------
(* C19: the cache key, as each operation of the adapter derives it *)

KeyChars == {"u", ":", "1"}
MaxKeyLen == 2

\* partition and sort values: strings, the empty one and ones holding ':'
KeyStrings == UNION {[1..n -> KeyChars] : n \in 0..MaxKeyLen}
SortValues == {None} \cup {Some(s) : s \in {<<>>, <<"1">>, <<":">>, <<"u">>}}
SortKeys == {None, sortKey}

\* the item or DynamoKey object with these values
KeyObject(partitionValue, sortValue) ==
    IF sortValue = None THEN [pk |-> partitionValue]
    ELSE [pk |-> partitionValue, sk |-> sortValue[1]]

\* the key each operation derives in an adapter whose sort key attribute is
\* sKey: get / update / delete from their arguments, put / query / batchGet /
\* batchPut from an item, batchGet / batchDelete from a key object
deriveKeys(partitionValue, sortValue, sKey) ==
    /\ lastOp' = [Op("getCacheKey", NoKeys, <<KeyObject(partitionValue, sortValue)>>,
                     [get |-> getCacheKey(partitionValue, sortValue),
                      update |-> getCacheKey(partitionValue, sortValue),
                      delete |-> getCacheKey(partitionValue, sortValue),
                      put |-> itemCacheKeyWith(KeyObject(partitionValue, sortValue), sKey),
                      query |-> itemCacheKeyWith(KeyObject(partitionValue, sortValue), sKey),
                      batchGet |-> keyCacheKeyWith(KeyObject(partitionValue, sortValue), sKey),
                      batchGetStore |-> itemCacheKeyWith(KeyObject(partitionValue, sortValue), sKey),
                      batchPut |-> itemCacheKeyWith(KeyObject(partitionValue, sortValue), sKey),
                      batchDelete |-> keyCacheKeyWith(KeyObject(partitionValue, sortValue), sKey)],
                     TRUE, <<>>)
                  EXCEPT !.args = <<[partitionValue |-> partitionValue,
                                     sortValue |-> sortValue, sortKey |-> sKey]>>]
    /\ UNCHANGED <<pending, objects, instances, now, inst, store, cacheConfig, lastSet>>

NextKey ==
    \E partitionValue \in KeyStrings, sortValue \in SortValues, sKey \in SortKeys :
        deriveKeys(partitionValue, sortValue, sKey)

SpecKey == Init /\ [][NextKey]_vars

\* partitionValue alone without a sort value, partitionValue:sortValue with one
ExpectedKey(partitionValue, sortValue) ==
    IF sortValue = None THEN partitionValue
    ELSE partitionValue \o <<":">> \o sortValue[1]

\* the sort value an operation working on an item or a key object has: the
\* one under the adapter's sort key attribute, none without such an attribute
SortValueOf(a) == IF a.sortKey = None THEN None ELSE a.sortValue

\* C19: the derived cache key is exactly partitionValue without a sort value
\* and exactly partitionValue:sortValue with one, and get, put, update,
\* delete, query population, batchGet, batchPut and batchDelete derive the
\* same key for the same (partitionValue, sortValue).
C19_KeyDerivation ==
    lastOp.op = "getCacheKey" =>
        LET a == lastOp.args[1]
            r == lastOp.ret
        IN  /\ \A m \in {"get", "update", "delete"} :
                  r[m] = ExpectedKey(a.partitionValue, a.sortValue)
            /\ \A m \in {"put", "query", "batchGet", "batchGetStore", "batchPut", "batchDelete"} :
                  r[m] = ExpectedKey(a.partitionValue, SortValueOf(a))
            /\ a.sortValue = SortValueOf(a) => \A m, n \in DOMAIN r : r[m] = r[n]

\* every operation has derived "u:1" for the values "u" and "1"
C19_Witness ==
    /\ lastOp.op = "getCacheKey"
    /\ lastOp.args[1].sortKey # None
    /\ lastOp.args[1].sortValue = Some(<<"1">>)
    /\ \A m \in DOMAIN lastOp.ret : lastOp.ret[m] = <<"u", ":", "1">>
-----------------------------------------------------------------------------
(* C20: the administrative controls of the adapter *)

NextAdmin ==
    \/ SweepClock
    \/ \E item \in ItemsOf(store), fail \in BOOLEAN : put(item, fail, FALSE)
    \/ clearCache
    \/ getCacheSize
    \/ \E enabled \in BOOLEAN : setCacheEnabled(enabled)

SpecAdmin == InitAny /\ [][NextAdmin]_vars

AdminCall(op) == op.op \in {"clearCache", "getCacheSize"}

-----------------------------------------------------------------------------
(* One instance under every method that reads or writes, second by second *)

\* caller keys, one a leading part of the other
CallKeys == {<<"k">>, <<"k", "2">>}
CallValues == {<<"a">>, <<"b">>}
CallTtls == {Undefined, 0, 1}
CallPrefixes == {<<>>, <<"k">>, <<"k", "2">>}

\* the instance is constructed with a cleanup interval of two seconds
InitCalls ==
    /\ now = 0
    /\ inst = LocalCache_new(Undefined, <<>>, 0)
    /\ store = <<>>
    /\ cacheConfig = [enabled |-> FALSE, ttl |-> Undefined]
    /\ lastOp = Idle
    /\ NoCalls
    /\ lastSet = [k \in CacheKeys |-> NoSet]
    /\ \E prefix \in {<<>>, tableName \o <<":">>} :
          objects = <<LocalCache_construct(
                        [cleanupInterval |-> 2000, enableLogging |-> None, prefix |-> prefix], 0)>>
    /\ instances = [name \in Names |-> IF name = "default" THEN 1 ELSE NotRegistered]

NextCalls ==
    \/ Clock
    \/ \E k \in CallKeys, v \in CallValues, t \in CallTtls : Handle_set(1, k, v, t)
    \/ \E k \in CallKeys : Handle_get(1, k)
    \/ \E prefix \in CallPrefixes : Handle_query(1, prefix)
    \/ Handle_size(1)
    \/ Handle_keys(1)
    \/ Handle_values(1)
    \/ Handle_entries(1)

SpecCalls == InitCalls /\ [][NextCalls]_vars

-----------------------------------------------------------------------------
(* C21 *)

SweepingOps == {"cache.get", "cache.set", "cache.query", "cache.size",
                "cache.keys", "cache.values", "cache.entries"}

\* the entries a call reads or writes itself, apart from the sweep: the one of
\* its key for get and set, the ones matching its prefix for query
OwnEntry(c, op, item) ==
    \/ op.op \in {"cache.get", "cache.set"} /\ item.key = c.prefix \o op.keys[1]
    \/ op.op = "cache.query" /\ StartsWith(item.key, c.prefix \o op.items[1])

\* the entries of c that are not the call's own and satisfy P
Rest(c, op, P(_)) == SelectSeq(c.cache, LAMBDA item : ~OwnEntry(c, op, item) /\ P(item))

\* C21: on a call to get, set, query, size, keys, values or entries, if
\* now - lastCleanup is below cleanupInterval the sweep does nothing and
\* lastCleanup is unchanged; otherwise every entry whose expiry has passed is
\* removed, no unexpired or non-expiring entry is removed, and lastCleanup
\* becomes now.
C21_LazyCleanup ==
    [][lastOp'.op \in SweepingOps =>
          LET h == lastOp'.args[1]
              c == objects[h]
              d == objects'[h]
          IN  IF now - c.lastCleanup < c.cleanupInterval
              THEN /\ d.lastCleanup = c.lastCleanup
                   /\ Rest(d, lastOp', AnyItem) = Rest(c, lastOp', AnyItem)
              ELSE /\ d.lastCleanup = now
                   /\ Rest(d, lastOp', AnyItem) = Rest(c, lastOp', Unexpired)
                   /\ \A i \in 1..Len(d.cache) : Unexpired(d.cache[i])]_vars

\* a size() call has run the sweep, two seconds after construction, and has
\* kept the entry that expires in this very second
C21_Witness ==
    /\ lastOp.op = "cache.size"
    /\ This.lastCleanup = now
    /\ now = 2000
    /\ lastOp.ret = Some(1)
    /\ This.cache[1].ttl = 2
-----------------------------------------------------------------------------
(* C22 *)

TruthySet(op) == op.op = "cache.set" /\ ~Falsy(op.items[1])

\* the entries of c under the caller key k
EntriesOf(c, k) == SelectSeq(c.cache, LAMBDA item : item.key = c.prefix \o k)

\* a newly constructed instance with the options of c
Fresh(c, t) == [c EXCEPT !.cache = <<>>, !.lastCleanup = t]

\* C22: set(k, v2, t2) with a truthy v2 leaves one entry for k, the one the
\* same call leaves in an instance that held nothing: its value is v2 and its
\* expiry comes from t2 alone (none when t2 is omitted), whatever k held.
C22_SetReplaces ==
    TruthySet(lastOp) =>
        LET k == lastOp.keys[1]
            v2 == lastOp.items[1]
            t2 == lastOp.items[2]
        IN  /\ EntriesOf(This, k) = LocalCache_set(Fresh(This, now), k, v2, t2, now).cache
            /\ Len(EntriesOf(This, k)) = 1
            /\ EntriesOf(This, k)[1].value = v2
            /\ t2 = Undefined => EntriesOf(This, k)[1].ttl = Undefined

\* a set without ttl over a live entry that held another value
C22_Witness ==
    /\ TruthySet(lastOp)
    /\ lastOp.cached[1] = Some(<<"a">>)
    /\ lastOp.items = <<(<<"b">>), Undefined>>
    /\ \E i \in 1..Len(This.cache) :
          This.cache[i] = [key |-> This.prefix \o lastOp.keys[1], value |-> <<"b">>, ttl |-> Undefined]
-----------------------------------------------------------------------------
(* C23: the expiry of what set() stores, called directly and by the adapter *)

\* the adapter on its instance, and an instance that is called directly
InitTtl ==
    /\ now = 0
    /\ inst = LocalCache_new(Undefined, tableName \o <<":">>, 0)
    /\ store = [k \in Keys |-> None]
    /\ \E ttl \in CfgTtls : cacheConfig = [enabled |-> TRUE, ttl |-> ttl]
    /\ lastOp = Idle
    /\ NoCalls
    /\ lastSet = [k \in CacheKeys |-> NoSet]
    /\ objects = <<LocalCache_construct(NoOptions, 0)>>
    /\ instances = [name \in Names |-> IF name = "default" THEN 1 ELSE NotRegistered]

NextTtl ==
    \/ Clock
    \/ \E k \in HandleKeys, v \in {<<"a">>}, t \in {Undefined} \cup TtlValues :
          Handle_set(1, k, v, t)
    \/ Calls({})

SpecTtl == InitTtl /\ [][NextTtl]_vars

\* now + ttlSeconds, in the whole seconds the cache keeps
ExpiresAt(ttlSeconds) == Seconds(now) + ttlSeconds

\* the entry a direct set has stored has the expiry that Passed yields for
\* the ttlSeconds of the call, and so has every entry the adapter has written
\* or rewritten for its configured ttl
StoresExpiry(Passed(_)) ==
    /\ TruthySet(lastOp') =>
          LET h == lastOp'.args[1]
              t == lastOp'.items[2]
          IN  EntriesOf(objects'[h], lastOp'.keys[1])[1].ttl =
                 IF Passed(t) THEN ExpiresAt(t) ELSE Undefined
    /\ \A i \in 1..Len(inst'.cache) :
          (\A j \in 1..Len(inst.cache) : inst.cache[j] # inst'.cache[i]) =>
              inst'.cache[i].ttl = IF Passed(cacheConfig.ttl) THEN ExpiresAt(cacheConfig.ttl)
                                   ELSE Undefined

IsPassed(ttlSeconds) == ttlSeconds # Undefined
IsPassedNonZero(ttlSeconds) == ttlSeconds # Undefined /\ ttlSeconds # 0

\* C23 as stated: set(k, v, ttlSeconds) with a truthy v stores the expiry
\* now + ttlSeconds for every ttlSeconds that is passed and no expiry only
\* when none is passed, and the adapter's configured ttl goes through this
\* computation on every cache write.
C23_AsStated == [][StoresExpiry(IsPassed)]_vars

\* C23 (amended): the same for every ttlSeconds other than 0; a ttlSeconds of
\* 0, like one that is not passed, stores an entry without expiry.
C23_TtlComputation == [][StoresExpiry(IsPassedNonZero)]_vars

\* a direct set with ttlSeconds 0 has stored an entry without expiry, and the
\* adapter, configured with a ttl, holds an entry that expires
C23_Witness ==
    /\ TruthySet(lastOp)
    /\ lastOp.items[2] = 0
    /\ EntriesOf(This, lastOp.keys[1])[1].ttl = Undefined
    /\ cacheConfig.ttl = 1
    /\ \E i \in 1..Len(inst.cache) : inst.cache[i].ttl = Seconds(now) + 1
-----------------------------------------------------------------------------
(* C24 *)

\* the key a caller knows the entry by: the stored key without the prefix
VisibleKey(c, item) == SubSeq(item.key, Len(c.prefix) + 1, Len(item.key))

ValuesOf(items) == [i \in 1..Len(items) |-> items[i].value]

\* C24: query(p) returns exactly the values of the unexpired entries whose
\* caller-visible key starts with p, removes the expired ones among the
\* matching entries, and changes no entry whose key does not start with p,
\* except that a due cleanup sweep removes the expired ones among those too.
C24_QueryByPrefix ==
    [][lastOp'.op = "cache.query" =>
          LET h == lastOp'.args[1]
              c == objects[h]
              d == objects'[h]
              Matches(item) == StartsWith(VisibleKey(c, item), lastOp'.items[1])
              Live(item) == Matches(item) /\ Unexpired(item)
              Other(item) == ~Matches(item)
              OtherKept(item) ==
                  /\ ~Matches(item)
                  /\ (now - c.lastCleanup >= c.cleanupInterval => Unexpired(item))
          IN  /\ lastOp'.ret = Some(ValuesOf(SelectSeq(c.cache, Live)))
              /\ SelectSeq(d.cache, Matches) = SelectSeq(c.cache, Live)
              /\ SelectSeq(d.cache, Other) = SelectSeq(c.cache, OtherKept)]_vars

\* query("k2") has returned the value of k2 and has left the entry of k, which
\* has expired and which no sweep was due to remove
C24_Witness ==
    /\ lastOp.op = "cache.query"
    /\ lastOp.items[1] = <<"k", "2">>
    /\ lastOp.ret = Some(<<(<<"b">>)>>)
    /\ Len(This.cache) = 2
    /\ This.prefix # <<>>
    /\ ~Unexpired(This.cache[1])
-----------------------------------------------------------------------------
(* C25: a table with two partitions, the name of one a leading part of the
   other's *)

PartitionKeys == [pk : {<<"u">>, <<"u", "2">>}, sk : {<<"1">>}]

InitPartitions ==
    /\ now = 0
    /\ inst = LocalCache_new(Undefined, tableName \o <<":">>, 0)
    /\ store = [k \in PartitionKeys |-> None]
    /\ \E ttl \in CfgTtls : cacheConfig = [enabled |-> TRUE, ttl |-> ttl]
    /\ lastOp = Idle
    /\ NoCalls
    /\ lastSet = [k \in CacheKeys |-> NoSet]
    /\ NoInstances

NextPartitions ==
    \/ ExpiryClock
    \/ \E item \in ItemsOf(store), fail \in BOOLEAN : put(item, fail, FALSE)
    \/ \E k \in DOMAIN store, fail \in BOOLEAN : delete(k.pk, Some(k.sk), fail, FALSE)
    \/ \E pv \in PartitionsOf(store), limit \in {Undefined, 1}, fail \in BOOLEAN :
          query(pv, [filterExpression |-> FALSE, indexName |-> FALSE, limit |-> limit],
                fail, TRUE)

SpecPartitions == InitPartitions /\ [][NextPartitions]_vars

\* a recorded simple query that was answered from the cache
QueryFromCache(op) == op.op = "query" /\ SimpleOptions(op) /\ op.remote = <<>>

\* C25: a simple query(p) that is served from the cache returns only items
\* whose partition key attribute equals p, also when a partition is cached
\* of whose value p is a leading part.
C25_AsStated ==
    QueryFromCache(lastOp) =>
        \A i \in 1..Len(lastOp.ret) : lastOp.ret[i].pk = lastOp.args[1].partitionValue
-----------------------------------------------------------------------------
(* C26: queries of a partition that is cached in part; the adapter is the
   only writer, caching stays enabled and the table answers every query *)

NextComplete ==
    \/ ExpiryClock
    \/ \E item \in ItemsOf(store), fail \in BOOLEAN : put(item, fail, FALSE)
    \/ \E k \in Keys, d \in Data, fail \in BOOLEAN :
          update(k.pk, Some(k.sk), [data |-> d], fail, FALSE)
    \/ \E k \in Keys, fail \in BOOLEAN : get(k.pk, Some(k.sk), fail, TRUE)
    \/ \E pv \in PartitionsOf(store), limit \in {Undefined, 1} :
          query(pv, [filterExpression |-> FALSE, indexName |-> FALSE, limit |-> limit],
                FALSE, TRUE)

SpecComplete == Init /\ [][NextComplete]_vars

\* the items the table holds for a partition
StoredFor(partitionValue) ==
    {store[k][1] : k \in {key \in DOMAIN store : key.pk = partitionValue /\ store[key] # None}}

\* C26: with the adapter as the only writer and caching enabled, a simple
\* query(p) without limit returns every item the table holds for partition
\* p, also when only some of p's items are in the cache.
C26_AsStated ==
    (lastOp.op = "query" /\ SimpleOptions(lastOp)
        /\ ~TruthyNumber(lastOp.args[1].options.limit)) =>
        {lastOp.ret[i] : i \in 1..Len(lastOp.ret)} = StoredFor(lastOp.args[1].partitionValue)
-----------------------------------------------------------------------------
(* C27: a table whose key values hold the ':' that joins them in a cache key *)

ColonKeys == {[pk |-> <<"u", ":", "2">>, sk |-> <<"1">>],
              [pk |-> <<"u">>, sk |-> <<"2", ":", "1">>]}

InitColons ==
    /\ now = 0
    /\ inst = LocalCache_new(Undefined, tableName \o <<":">>, 0)
    /\ store = [k \in ColonKeys |-> None]
    /\ \E ttl \in CfgTtls : cacheConfig = [enabled |-> TRUE, ttl |-> ttl]
    /\ lastOp = Idle
    /\ NoCalls
    /\ lastSet = [k \in CacheKeys |-> NoSet]
    /\ NoInstances

NextColons ==
    \/ ExpiryClock
    \/ \E item \in ItemsOf(store), fail \in BOOLEAN : put(item, fail, FALSE)
    \/ \E k \in DOMAIN store, fail \in BOOLEAN : delete(k.pk, Some(k.sk), fail, TRUE)
    \/ \E k \in DOMAIN store, fail \in BOOLEAN : get(k.pk, Some(k.sk), fail, TRUE)

SpecColons == InitColons /\ [][NextColons]_vars

\* C27: two different (partitionValue, sortValue) pairs never share a cache
\* key, so that a get answered from the cache returns the item of the key
\* that was asked for, never one that was cached for another key.
C27_AsStated ==
    (lastOp.op = "get" /\ lastOp.remote = <<>> /\ lastOp.ret # None) =>
        itemKey(lastOp.ret[1]) = lastOp.keys[1]
-----------------------------------------------------------------------------
(* C28 *)

\* a recorded get that was answered from the cache
GetFromCache(op) == op.op = "get" /\ op.remote = <<>> /\ op.ret # None

\* C28: whatever setCacheEnabled has done in between, a get served from the
\* cache returns the item as the adapter's latest successful put, update or
\* delete of that key left it, which, the adapter being the only writer, is
\* the item the table holds: a write made while caching was disabled leaves
\* no earlier entry to be served once caching is enabled again.
C28_AsStated ==
    GetFromCache(lastOp) => store[lastOp.keys[1]] = lastOp.ret
-----------------------------------------------------------------------------
(* C29: adapter calls that overlap.  A call runs to its await of the
   DynamoWrapper method, the table serves the request at some later moment,
   and the rest of the call runs when the answer has arrived; other calls
   run in between, and answers arrive in any order. *)

MaxCalls == 2

\* a call suspended at its await: the method, its key, its item or
\* attributes, and the table's answer once the request was served
Suspended(method, key, arg) ==
    [m |-> method, key |-> key, arg |-> arg, answered |-> FALSE, resp |-> <<>>]

suspend(call) ==
    /\ Len(pending) < MaxCalls
    /\ pending' = Append(pending, call)

\* get() up to `await super.get(...)`: a hit returns at once
get_call(partitionValue, sortValue) ==
    LET cacheKey == getCacheKey(partitionValue, sortValue)
        r == IF cacheConfig.enabled THEN LocalCache_get(inst, cacheKey, now)
             ELSE [c |-> inst, ret |-> None]
    IN  /\ inst' = r.c
        /\ IF r.ret # None THEN pending' = pending
           ELSE suspend(Suspended("get", createKey(partitionValue, sortValue), <<>>))
        /\ lastOp' = Idle
        /\ UNCHANGED <<objects, instances, now, store, cacheConfig, lastSet>>

\* put(), update() and delete() up to the await of the DynamoWrapper method
put_call(item) ==
    /\ suspend(Suspended("put", itemKey(item), <<item>>))
    /\ lastOp' = Idle
    /\ UNCHANGED <<objects, instances, now, inst, store, cacheConfig, lastSet>>

update_call(partitionValue, sortValue, attributes) ==
    /\ suspend(Suspended("update", createKey(partitionValue, sortValue), <<attributes>>))
    /\ lastOp' = Idle
    /\ UNCHANGED <<objects, instances, now, inst, store, cacheConfig, lastSet>>

delete_call(partitionValue, sortValue) ==
    /\ suspend(Suspended("delete", createKey(partitionValue, sortValue), <<>>))
    /\ lastOp' = Idle
    /\ UNCHANGED <<objects, instances, now, inst, store, cacheConfig, lastSet>>

\* the table serves the request of the i-th suspended call
respond(i, fail) ==
    LET call == pending[i]
        w == IF call.m = "get"
             THEN [tbl |-> store,
                   ret |-> DynamoWrapper_get(store, call.key.pk, Some(call.key.sk), fail)]
             ELSE IF call.m = "put" THEN DynamoWrapper_put(store, call.arg[1], fail)
             ELSE IF call.m = "update"
             THEN DynamoWrapper_update(store, call.key.pk, Some(call.key.sk), call.arg[1], fail)
             ELSE DynamoWrapper_delete(store, call.key.pk, Some(call.key.sk), fail)
    IN  /\ ~call.answered
        /\ store' = w.tbl
        /\ pending' = [pending EXCEPT ![i] = [call EXCEPT !.answered = TRUE, !.resp = w.ret]]
        /\ lastOp' = Idle
        /\ UNCHANGED <<objects, instances, now, inst, cacheConfig, lastSet>>

\* the i-th suspended call continues after its await, with the answer
resume(i) ==
    LET call == pending[i]
        pv == call.key.pk
        sv == Some(call.key.sk)
    IN  /\ call.answered
        /\ inst' = IF call.m = "get" THEN get_store(inst, getCacheKey(pv, sv), call.resp)
                   ELSE IF call.m = "put" THEN put_store(inst, call.resp, call.arg[1])
                   ELSE IF call.m = "update" THEN update_invalidate(inst, call.resp, pv, sv)
                   ELSE delete_invalidate(inst, pv, sv)
        /\ pending' = [j \in 1..(Len(pending) - 1) |-> IF j < i THEN pending[j] ELSE pending[j + 1]]
        /\ lastOp' = Idle
        /\ UNCHANGED <<objects, instances, now, store, cacheConfig, lastSet>>

NextAsync ==
    \/ \E k \in Keys : get_call(k.pk, Some(k.sk))
    \/ \E item \in ItemsOf(store) : put_call(item)
    \/ \E k \in Keys, d \in Data : update_call(k.pk, Some(k.sk), [data |-> d])
    \/ \E k \in Keys : delete_call(k.pk, Some(k.sk))
    \/ \E i \in 1..Len(pending), fail \in BOOLEAN : respond(i, fail)
    \/ \E i \in 1..Len(pending) : resume(i)

SpecAsync == Init /\ [][NextAsync]_vars

\* C29: with one adapter as the only writer and caching enabled, once all
\* overlapping calls have completed the cache holds, for every key, no entry
\* or exactly the item the table holds.
C29_AsStated ==
    NoCalls => \A k \in Keys : HasEntry(k) => store[k] = Some(EntryOf(k).value)
-----------------------------------------------------------------------------
(* C30 *)

Enumerations == {"cache.keys", "cache.values", "cache.entries"}

\* the pairs of caller key and value of the stored entries, in their order
StoredPairs(c) ==
    [i \in 1..Len(c.cache) |-> <<VisibleKey(c, c.cache[i]), c.cache[i].value>>]

\* what an enumeration returns when pairs is what entries() returns
Projected(op, pairs) ==
    [i \in 1..Len(pairs) |-> IF op.op = "cache.keys" THEN pairs[i][1]
                             ELSE IF op.op = "cache.values" THEN pairs[i][2]
                             ELSE pairs[i]]

\* C30 as stated: every key, value or pair that keys(), values() or
\* entries() returns belongs to an entry that get(key) would return at that
\* moment, so no entry whose expiry has passed is enumerated, also when the
\* cleanup interval has not elapsed; the three list the same entries in the
\* same order.
C30_AsStated ==
    lastOp.op \in Enumerations =>
        /\ lastOp.ret = Some(Projected(lastOp, StoredPairs(This)))
        /\ \A i \in 1..Len(This.cache) :
              LocalCache_get(This, VisibleKey(This, This.cache[i]), now).ret
                 = Some(This.cache[i].value)

\* C30 (amended): keys(), values() and entries() list the entries that are
\* stored after the call's cleanup step, the same entries in the same order:
\* when the sweep was due in the call none of them has expired and get(key)
\* would return each of them; when the interval has not elapsed the entries
\* whose expiry has passed and that nothing has removed yet are listed too.
C30_EnumerationsListStored ==
    [][lastOp'.op \in Enumerations =>
          LET h == lastOp'.args[1]
              c == objects[h]
              d == objects'[h]
          IN  /\ lastOp'.ret = Some(Projected(lastOp', StoredPairs(d)))
              /\ SelectSeq(d.cache, Unexpired) = SelectSeq(c.cache, Unexpired)
              /\ \A i \in 1..Len(d.cache) :
                    Unexpired(d.cache[i]) =>
                        LocalCache_get(d, VisibleKey(d, d.cache[i]), now).ret
                           = Some(d.cache[i].value)
              /\ now - c.lastCleanup >= c.cleanupInterval =>
                    \A i \in 1..Len(d.cache) : Unexpired(d.cache[i])
              /\ now - c.lastCleanup < c.cleanupInterval => d.cache = c.cache]_vars

\* keys() has returned the key of an entry that has expired, next to a live one
C30_Witness ==
    /\ lastOp.op = "cache.keys"
    /\ Len(lastOp.ret[1]) = 2
    /\ ~Unexpired(This.cache[1])
    /\ Unexpired(This.cache[2])
    /\ LocalCache_get(This, lastOp.ret[1][1], now).ret = None

====
